---- MODULE Spec2Model ----
(***************************************************************************)
(* A model of the apca REST client's request/response type system:         *)
(*   - the Identifier resolver (common.rs / symbology.rs),                  *)
(*   - the SubmitOrder builder and its JSON encoding (orders.rs),           *)
(*   - the account-activities pagination sequence (account_activities.rs),  *)
(*     alone, over a built request, two at once, and under fair progress,   *)
(*   - the decoding of Activity, Order and Position payloads (utils.rs),    *)
(*   - the classification of a response into a result,                      *)
(*   - the query encoding of GetAccountActivities, GetAccountActivitiesByType*)
(*     and GetOrders, and the wire codes of ActivityType.                   *)
(* Identifier text is modelled as sequences of one-character strings,      *)
(* Option<T> as a sequence of length 0 (None) or 1 (Some), JSON objects and *)
(* queries as sequences of <<key, value>> pairs in emission order.          *)
(***************************************************************************)
EXTENDS Integers, Sequences, FiniteSets, TLC

(* ------------------------------ bounds -------------------------------- *)
\* longest generic input text given to the identifier parser
MaxStrLen == 5
\* longest ticker / exchange / asset-class text of a generated Identifier
MaxPartLen == 2
\* most activities the server puts on one page
MaxPageLen == 2
\* most requests one pagination sequence is followed for
MaxRequests == 4
\* most requests a pagination sequence over a built request is followed for
MaxMergedRequests == 2
\* most requests each of two concurrent pagination sequences is followed for
MaxConcurrentRequests == 2
\* most activities a server with a finite record holds
MaxLedger == 3
\* most keys a generated activity payload lacks of its full shape
MaxMissing == 2
\* longest text of a generated quantity token
MaxTokenLen == 3
\* most builder calls made on a request before it is sent
MaxCalls == 3

(* ------------------------------ Option -------------------------------- *)
None == <<>>
Some(x) == <<x>>
IsSome(o) == Len(o) = 1
Unwrap(o) == o[1]

\* Result<T, E>
Ok(x) == [ok |-> TRUE, val |-> x]
Err(e) == [ok |-> FALSE, val |-> e]

(* ------------------------------- text --------------------------------- *)
Colon == ":"
Hyphen == "-"

RECURSIVE SeqsUpTo(_, _)
\* every sequence over S of length 0..n
SeqsUpTo(S, n) ==
  IF n = 0 THEN {<<>>}
  ELSE LET shorter == SeqsUpTo(S, n - 1)
       IN  shorter \cup {Append(t, c) : t \in {u \in shorter : Len(u) = n - 1}, c \in S}

HasChar(s, c) == \E i \in 1..Len(s) : s[i] = c

\* a split at the LAST delimiter (str::rsplit_once)
split_once_last(s, c) ==
  IF HasChar(s, c)
  THEN LET i == CHOOSE k \in 1..Len(s) :
                  s[k] = c /\ \A j \in (k+1)..Len(s) : s[j] # c
       IN  Some(<<SubSeq(s, 1, i - 1), SubSeq(s, i + 1, Len(s))>>)
  ELSE None

\* str::split_once: the text before and after the FIRST delimiter, or None
split_once(s, c) ==
  IF HasChar(s, c)
  THEN LET i == CHOOSE k \in 1..Len(s) :
                  s[k] = c /\ \A j \in 1..(k-1) : s[j] # c
       IN  Some(<<SubSeq(s, 1, i - 1), SubSeq(s, i + 1, Len(s))>>)
  ELSE None

(* ------------------------------- Uuid --------------------------------- *)
HexLower == {"0","1","2","3","4","5","6","7","8","9","a","b","c","d","e","f"}
HexUpper == {"A","B","C","D","E","F"}
IsHex(c) == c \in HexLower \cup HexUpper
ToLowerHex(c) ==
  CASE c = "A" -> "a" [] c = "B" -> "b" [] c = "C" -> "c"
    [] c = "D" -> "d" [] c = "E" -> "e" [] c = "F" -> "f"
    [] OTHER -> c

UrnPrefix == <<"u","r","n",":","u","u","i","d",":">>
HyphenAt == {9, 14, 19, 24}
SimpleLength == 32
HyphenatedLength == 36
UrnLength == 45

\* the text the digits are read from: a urn:uuid: prefix is stripped
UuidDigitsText(s) ==
  IF Len(s) = UrnLength /\ SubSeq(s, 1, 9) = UrnPrefix
  THEN SubSeq(s, 10, Len(s)) ELSE s

IsHyphenatedUuid(b) ==
  /\ Len(b) = HyphenatedLength
  /\ \A i \in 1..Len(b) : IF i \in HyphenAt THEN b[i] = Hyphen ELSE IsHex(b[i])

IsSimpleUuid(b) ==
  /\ Len(b) = SimpleLength
  /\ \A i \in 1..Len(b) : IsHex(b[i])

NotHyphen(c) == c # Hyphen
LowerAll(s) == [i \in 1..Len(s) |-> ToLowerHex(s[i])]

\* Uuid::parse_str: Some(32 lower-case hex digits) or None (an Err)
Uuid_parse_str(s) ==
  LET b == UuidDigitsText(s) IN
  IF IsHyphenatedUuid(b) THEN Some(LowerAll(SelectSeq(b, NotHyphen)))
  ELSE IF IsSimpleUuid(b) THEN Some(LowerAll(b))
  ELSE None

\* Display for Uuid: lower-case hyphenated 8-4-4-4-12
Uuid_Display(u) ==
  SubSeq(u, 1, 8) \o <<Hyphen>> \o SubSeq(u, 9, 12) \o <<Hyphen>> \o
  SubSeq(u, 13, 16) \o <<Hyphen>> \o SubSeq(u, 17, 20) \o <<Hyphen>> \o
  SubSeq(u, 21, 32)

(* ---------------------------- Identifier ------------------------------ *)
Symbol(symbol, rest) == [tag |-> "Symbol", symbol |-> symbol, rest |-> rest]
AssetId(u) == [tag |-> "AssetId", id |-> u]

\* Display for Identifier that forgets the asset class
Identifier_Display_NoClass(id) ==
  IF id.tag = "AssetId" THEN Uuid_Display(id.id)
  ELSE IF id.rest = None THEN id.symbol
  ELSE id.symbol \o <<Colon>> \o Unwrap(id.rest)[1]

\* impl Display for Identifier
Identifier_Display(id) ==
  IF id.tag = "AssetId" THEN Uuid_Display(id.id)
  ELSE IF id.rest = None THEN id.symbol
  ELSE LET exchange == Unwrap(id.rest)[1]
           asset_class == Unwrap(id.rest)[2]
       IN  IF asset_class = None
           THEN id.symbol \o <<Colon>> \o exchange
           ELSE id.symbol \o <<Colon>> \o exchange \o <<Colon>> \o Unwrap(asset_class)

\* From<&str> that looks for ':' before it tries the UUID parse
Identifier_from_str_SplitFirst(s) ==
  LET first == split_once(s, Colon) IN
  IF IsSome(first)
  THEN LET symbol == Unwrap(first)[1]
           rest == Unwrap(first)[2]
           second == split_once(rest, Colon)
       IN  IF IsSome(second)
           THEN Symbol(symbol, Some(<<Unwrap(second)[1], Some(Unwrap(second)[2])>>))
           ELSE Symbol(symbol, Some(<<rest, None>>))
  ELSE LET u == Uuid_parse_str(s) IN
       IF IsSome(u) THEN AssetId(Unwrap(u)) ELSE Symbol(s, None)

\* impl From<&str> for Identifier
Identifier_from_str(s) ==
  LET u == Uuid_parse_str(s) IN
  IF IsSome(u) THEN AssetId(Unwrap(u))
  ELSE LET first == split_once(s, Colon) IN
       IF IsSome(first)
       THEN LET symbol == Unwrap(first)[1]
                rest == Unwrap(first)[2]
                second == split_once(rest, Colon)
            IN  IF IsSome(second)
                THEN Symbol(symbol, Some(<<Unwrap(second)[1], Some(Unwrap(second)[2])>>))
                ELSE Symbol(symbol, Some(<<rest, None>>))
       ELSE Symbol(s, None)

(* ------------------------- numbers as text ---------------------------- *)
Digit(d) ==
  CASE d = 0 -> "0" [] d = 1 -> "1" [] d = 2 -> "2" [] d = 3 -> "3" [] d = 4 -> "4"
    [] d = 5 -> "5" [] d = 6 -> "6" [] d = 7 -> "7" [] d = 8 -> "8" [] d = 9 -> "9"

RECURSIVE usize_to_string(_)
\* Display for usize: decimal digits, no leading zeros
usize_to_string(n) ==
  IF n < 10 THEN Digit(n) ELSE usize_to_string(n \div 10) \o Digit(n % 10)

RECURSIVE Pow10(_)
Pow10(k) == IF k = 0 THEN 1 ELSE 10 * Pow10(k - 1)

RECURSIVE FractionDigits(_, _)
\* the last k decimal digits of f, zero padded
FractionDigits(f, k) ==
  IF k = 0 THEN "" ELSE FractionDigits(f \div 10, k - 1) \o Digit(f % 10)

\* Decimal::new(num, scale): the value num / 10^scale
Decimal_new(num, scale) == [num |-> num, scale |-> scale]

\* Display for Decimal: integer part, then '.' and exactly `scale` digits
Decimal_to_string(d) ==
  IF d.scale = 0 THEN usize_to_string(d.num)
  ELSE usize_to_string(d.num \div Pow10(d.scale)) \o "." \o
       FractionDigits(d.num % Pow10(d.scale), d.scale)

(* ------------------------------- JSON --------------------------------- *)
JString(text) == [t |-> "string", v |-> text]
JNull == [t |-> "null", v |-> "null"]
JBool(b) == [t |-> "bool", v |-> IF b THEN "true" ELSE "false"]
JObject(pairs) == [t |-> "object", v |-> pairs]

Keys(pairs) == {pairs[i][1] : i \in 1..Len(pairs)}
HasKey(pairs, k) == \E i \in 1..Len(pairs) : pairs[i][1] = k
KeyCount(pairs, k) == Cardinality({i \in 1..Len(pairs) : pairs[i][1] = k})
\* the value of the first entry with key k
Get(pairs, k) == pairs[CHOOSE i \in 1..Len(pairs) :
                         pairs[i][1] = k /\ \A j \in 1..(i-1) : pairs[j][1] # k][2]
HasString(pairs, k, text) == HasKey(pairs, k) /\ Get(pairs, k) = JString(text)
IsObjectAt(pairs, k) == HasKey(pairs, k) /\ Get(pairs, k).t = "object"

\* Serialize for Decimal: its Display text as a JSON string
Ser_Decimal(d) == JString(Decimal_to_string(d))
\* Serialize for Option<Decimal> without skip_serializing_if
Ser_OptionDecimal(o) == IF IsSome(o) THEN Ser_Decimal(Unwrap(o)) ELSE JNull

(* ----------------------------- OrderType ------------------------------ *)
Market == [variant |-> "Market"]
Limit(limit_price) == [variant |-> "Limit", limit_price |-> limit_price]
Stop(stop_price) == [variant |-> "Stop", stop_price |-> stop_price]
StopLimit(limit_price, stop_price) ==
  [variant |-> "StopLimit", limit_price |-> limit_price, stop_price |-> stop_price]
TrailingStop(trail_price, trail_percent) ==
  [variant |-> "TrailingStop", trail_price |-> trail_price, trail_percent |-> trail_percent]

\* impl OrderType: the public constructors
OrderType_market == Market
OrderType_limit(limit_price) == Limit(limit_price)
OrderType_stop(stop_price) == Stop(stop_price)
OrderType_stop_limit(stop_price, limit_price) == StopLimit(limit_price, stop_price)
\* a trail_price constructor that sets both offsets
OrderType_trail_price_Both(trail_price) == TrailingStop(Some(trail_price), Some(trail_price))
OrderType_trail_price(trail_price) == TrailingStop(Some(trail_price), None)
OrderType_trail_percent(trail_percent) == TrailingStop(None, Some(trail_percent))

\* a call of one of the constructors of impl OrderType
OrderType_call(c) ==
  CASE c.ctor = "market" -> OrderType_market
    [] c.ctor = "limit" -> OrderType_limit(c.args[1])
    [] c.ctor = "stop" -> OrderType_stop(c.args[1])
    [] c.ctor = "stop_limit" -> OrderType_stop_limit(c.args[1], c.args[2])
    [] c.ctor = "trail_price" -> OrderType_trail_price(c.args[1])
    [] c.ctor = "trail_percent" -> OrderType_trail_percent(c.args[1])

\* #[serde(rename_all = "snake_case")] on OrderType
OrderType_tag(ot) ==
  CASE ot.variant = "Market" -> "market"
    [] ot.variant = "Limit" -> "limit"
    [] ot.variant = "Stop" -> "stop"
    [] ot.variant = "StopLimit" -> "stop_limit"
    [] ot.variant = "TrailingStop" -> "trailing_stop"

\* an encoding of OrderType as one struct of optional prices, nulls written
Ser_OrderType_AllPrices(ot) ==
  << <<"type", JString(OrderType_tag(ot))>>,
     <<"limit_price", IF ot.variant \in {"Limit", "StopLimit"}
                      THEN Ser_Decimal(ot.limit_price) ELSE JNull>>,
     <<"stop_price", IF ot.variant \in {"Stop", "StopLimit"}
                     THEN Ser_Decimal(ot.stop_price) ELSE JNull>> >>

\* Serialize for OrderType, #[serde(tag = "type")]: the tag entry, then the
\* variant's own fields in declaration order
Ser_OrderType(ot) ==
  << <<"type", JString(OrderType_tag(ot))>> >> \o
  CASE ot.variant = "Market" -> <<>>
    [] ot.variant = "Limit" -> << <<"limit_price", Ser_Decimal(ot.limit_price)>> >>
    [] ot.variant = "Stop" -> << <<"stop_price", Ser_Decimal(ot.stop_price)>> >>
    [] ot.variant = "StopLimit" ->
         << <<"limit_price", Ser_Decimal(ot.limit_price)>>,
            <<"stop_price", Ser_Decimal(ot.stop_price)>> >>
    [] ot.variant = "TrailingStop" ->
         << <<"trail_price", Ser_OptionDecimal(ot.trail_price)>>,
            <<"trail_percent", Ser_OptionDecimal(ot.trail_percent)>> >>

(* ----------------------------- OrderClass ----------------------------- *)
TakeProfitSpec(limit_price) == [limit_price |-> limit_price]
StopLossSpec(stop_price, limit_price) == [stop_price |-> stop_price, limit_price |-> limit_price]
OtoSpec_TakeProfit(tp) == [variant |-> "TakeProfit", leg |-> tp]
OtoSpec_StopLoss(sl) == [variant |-> "StopLoss", leg |-> sl]

Simple == [variant |-> "Simple"]
Bracket(take_profit, stop_loss) ==
  [variant |-> "Bracket", take_profit |-> take_profit, stop_loss |-> stop_loss]
OneCancelsOther(take_profit, stop_loss) ==
  [variant |-> "OneCancelsOther", take_profit |-> take_profit, stop_loss |-> stop_loss]
OneTriggersOther(spec) == [variant |-> "OneTriggersOther", spec |-> spec]

\* #[serde(rename_all = "lowercase")] on OrderClass
OrderClass_tag(oc) ==
  CASE oc.variant = "Simple" -> "simple"
    [] oc.variant = "Bracket" -> "bracket"
    [] oc.variant = "OneCancelsOther" -> "onecancelsother"
    [] oc.variant = "OneTriggersOther" -> "onetriggersother"

\* Serialize for TakeProfitSpec
Ser_TakeProfitSpec(tp) == JObject(<< <<"limit_price", Ser_Decimal(tp.limit_price)>> >>)

\* StopLossSpec written without skip_serializing_if: an unset limit is null
Ser_StopLossSpec_NoSkip(sl) ==
  JObject(<< <<"stop_price", Ser_Decimal(sl.stop_price)>>,
             <<"limit_price", Ser_OptionDecimal(sl.limit_price)>> >>)

\* Serialize for StopLossSpec: limit_price skipped when None
Ser_StopLossSpec(sl) ==
  JObject(<< <<"stop_price", Ser_Decimal(sl.stop_price)>> >> \o
          IF IsSome(sl.limit_price)
          THEN << <<"limit_price", Ser_Decimal(Unwrap(sl.limit_price))>> >>
          ELSE <<>>)

\* Serialize for OtoSpec (externally tagged newtype variants):
\* one object whose only key is the variant's name
Ser_OtoSpec(spec) ==
  IF spec.variant = "TakeProfit"
  THEN JObject(<< <<"TakeProfit", Ser_TakeProfitSpec(spec.leg)>> >>)
  ELSE JObject(<< <<"StopLoss", Ser_StopLossSpec(spec.leg)>> >>)

\* an encoder that writes the class tag and leaves the legs out
Ser_OrderClass_TagOnly(oc) == << <<"order_class", JString(OrderClass_tag(oc))>> >>

\* Serialize for OrderClass, #[serde(tag = "order_class")]: the tag entry,
\* then the variant's fields under their own names
Ser_OrderClass(oc) ==
  << <<"order_class", JString(OrderClass_tag(oc))>> >> \o
  CASE oc.variant = "Simple" -> <<>>
    [] oc.variant \in {"Bracket", "OneCancelsOther"} ->
         << <<"take_profit", Ser_TakeProfitSpec(oc.take_profit)>>,
            <<"stop_loss", Ser_StopLossSpec(oc.stop_loss)>> >>
    [] oc.variant = "OneTriggersOther" -> << <<"spec", Ser_OtoSpec(oc.spec)>> >>

(* ----------------------------- SubmitOrder ---------------------------- *)
\* orders::Side, #[serde(rename_all = "snake_case")]
Side_tag(side) == CASE side = "Buy" -> "buy" [] side = "Sell" -> "sell"

\* TimeInForce, #[serde(rename = ...)] per variant
TimeInForce_tag(tif) ==
  CASE tif = "Day" -> "day" [] tif = "GoodTilCancelled" -> "gtc" [] tif = "Open" -> "opg"
    [] tif = "Close" -> "cls" [] tif = "ImmediateOrCancel" -> "ioc" [] tif = "FillOrKill" -> "fok"

\* SubmitOrder::new
SubmitOrder_new(symbol) ==
  [symbol |-> symbol, qty |-> 1, side |-> "Buy", order_type |-> OrderType_market,
   time_in_force |-> "GoodTilCancelled", extended_hours |-> FALSE,
   client_order_id |-> None, order_class |-> Simple]

\* Serialize for SubmitOrder: a map of the fields in declaration order; the
\* two #[serde(flatten)] fields contribute their own entries in place
Ser_SubmitOrder(o) ==
  << <<"symbol", JString(o.symbol)>>,
     <<"qty", JString(usize_to_string(o.qty))>>,
     <<"side", JString(Side_tag(o.side))>> >> \o
  Ser_OrderType(o.order_type) \o
  << <<"time_in_force", JString(TimeInForce_tag(o.time_in_force))>>,
     <<"extended_hours", JBool(o.extended_hours)>>,
     <<"client_order_id", IF IsSome(o.client_order_id)
                          THEN JString(Unwrap(o.client_order_id)) ELSE JNull>> >> \o
  Ser_OrderClass(o.order_class)


(* ------------------------ account activities -------------------------- *)
TradeActivity(id) == [variant |-> "TradeActivity", id |-> id]
NonTradeActivity(id) == [variant |-> "NonTradeActivity", id |-> id]

\* Activity::id
Activity_id(a) ==
  CASE a.variant = "TradeActivity" -> a.id
    [] a.variant = "NonTradeActivity" -> a.id

\* common::Sort, #[serde(rename = ...)] per variant
Sort_tag(sort) == CASE sort = "Ascending" -> "asc" [] sort = "Descending" -> "desc"

\* enum DateSpec
DateSpec_Date(date) == [variant |-> "Date", date |-> date]
DateSpec_UntilAfter(until, after) ==
  [variant |-> "UntilAfter", until |-> until, after |-> after]

\* Serialize for DateSpec, #[serde(untagged)]: the variant's fields, until
\* and after skipped when None
Ser_DateSpec(ds) ==
  IF ds.variant = "Date" THEN << <<"date", ds.date>> >>
  ELSE (IF IsSome(ds.until) THEN << <<"until", Unwrap(ds.until)>> >> ELSE <<>>) \o
       (IF IsSome(ds.after) THEN << <<"after", Unwrap(ds.after)>> >> ELSE <<>>)

\* enum ActivityType: the variants in declaration order
ActivityTypes ==
  <<"Fill", "CashTransactions", "Miscellaneous", "AcatsCash", "AcatsSecurities",
    "CashDeposit", "CashWithdrawal", "Dividend", "DividendLongTermCapitalGain",
    "DividendShortTermCapitalGain", "DividendFee", "DividendForeignTaxWithheld",
    "DividendNraWithheld", "DividendReturnOfCapital", "DividendTefraWithheld",
    "DividendTaxExempt", "Interest", "InterestNraWithheld", "InterestTefraWithheld",
    "JournalEntry", "JournalEntryCash", "JournalEntryStock", "MergerAcquisition",
    "NameChange", "OptionAssignment", "OptionExpiration", "OptionExercise",
    "PassThroughCharge", "PassThroughRebate", "Reorgnization", "SymbolChange",
    "StockSpinoff", "StockSplit">>

\* enum ActivityType: the #[serde(rename = ...)] of each variant, in the same order
ActivityType_rename ==
  <<"FILL", "TRANS", "MISC", "ACATC", "ACATS",
    "CSD", "CSW", "DIV", "DIVCGL",
    "DIVCGS", "DIVFEE", "DIVFT",
    "DIVNRA", "DIVROC", "DIVTXEX",
    "DIVTXEX", "INT", "INTNRA", "INTTW",
    "JNL", "JNLC", "JNLS", "MA",
    "NC", "OPASN", "OPEXP", "OPXRC",
    "PTC", "PTR", "REORG", "SC",
    "SSO", "SSP">>

ActivityType_index(t) == CHOOSE i \in 1..Len(ActivityTypes) : ActivityTypes[i] = t

\* Serialize for ActivityType (derived): the variant's rename
Ser_ActivityType(t) == ActivityType_rename[ActivityType_index(t)]

\* Display for ActivityType: serde_plain::to_string(self)
ActivityType_fmt(t) == Ser_ActivityType(t)

\* Deserialize for ActivityType (derived): the first variant, in declaration
\* order, whose rename is the given text
De_ActivityType(code) ==
  IF \E i \in 1..Len(ActivityTypes) : ActivityType_rename[i] = code
  THEN LET first == CHOOSE i \in 1..Len(ActivityTypes) :
                      /\ ActivityType_rename[i] = code
                      /\ \A j \in 1..(i - 1) : ActivityType_rename[j] # code
       IN Ok(ActivityTypes[first])
  ELSE Err("unknown variant")

Comma == ","

\* serde_with StringWithSeparator::<CommaSeparator>::serialize: the Display of
\* each element, with the separator between neighbours; the text is kept as
\* its pieces
RECURSIVE StringWithSeparator_serialize(_)
StringWithSeparator_serialize(values) ==
  IF values = <<>> THEN <<>>
  ELSE IF Len(values) = 1 THEN <<ActivityType_fmt(values[1])>>
  ELSE <<ActivityType_fmt(values[1]), Comma>> \o StringWithSeparator_serialize(Tail(values))

\* GetAccountActivities::new (Default)
GetAccountActivities_new ==
  [activity_types |-> <<>>, date_spec |-> None, sort |-> None,
   page_size |-> None, page_token |-> None]

\* GetAccountActivities::add_activity
GetAccountActivities_add_activity(r, activity_type) ==
  [r EXCEPT !.activity_types = Append(@, activity_type)]

\* an add_activities that puts the slice in place of the list
GetAccountActivities_add_activities_Replacing(r, activity_types) ==
  [r EXCEPT !.activity_types = activity_types]

\* GetAccountActivities::add_activities
GetAccountActivities_add_activities(r, activity_types) ==
  [r EXCEPT !.activity_types = @ \o activity_types]

\* GetAccountActivities::on_date
GetAccountActivities_on_date(r, date) ==
  [r EXCEPT !.date_spec = Some(DateSpec_Date(date))]

\* a before_date that always starts a new range
GetAccountActivities_before_date_DropsAfter(r, date) ==
  [r EXCEPT !.date_spec = Some(DateSpec_UntilAfter(Some(date), None))]

\* GetAccountActivities::before_date
GetAccountActivities_before_date(r, date) ==
  IF r.date_spec = None \/ Unwrap(r.date_spec).variant = "Date"
  THEN [r EXCEPT !.date_spec = Some(DateSpec_UntilAfter(Some(date), None))]
  ELSE [r EXCEPT !.date_spec =
                   Some(DateSpec_UntilAfter(Some(date), Unwrap(r.date_spec).after))]

\* GetAccountActivities::after_date
GetAccountActivities_after_date(r, date) ==
  IF r.date_spec = None \/ Unwrap(r.date_spec).variant = "Date"
  THEN [r EXCEPT !.date_spec = Some(DateSpec_UntilAfter(None, Some(date)))]
  ELSE [r EXCEPT !.date_spec =
                   Some(DateSpec_UntilAfter(Unwrap(r.date_spec).until, Some(date)))]

\* Serialize for GetAccountActivities as a query: activity_types skipped when
\* empty, otherwise one comma separated value; the others written only when set
Ser_GetAccountActivities(r) ==
  (IF r.activity_types = <<>> THEN <<>>
   ELSE << <<"activity_types", StringWithSeparator_serialize(r.activity_types)>> >>) \o
  (IF IsSome(r.date_spec) THEN Ser_DateSpec(Unwrap(r.date_spec)) ELSE <<>>) \o
  (IF IsSome(r.sort) THEN << <<"direction", Sort_tag(Unwrap(r.sort))>> >> ELSE <<>>) \o
  (IF IsSome(r.page_size)
   THEN << <<"page_size", usize_to_string(Unwrap(r.page_size))>> >> ELSE <<>>) \o
  (IF IsSome(r.page_token) THEN << <<"page_token", Unwrap(r.page_token)>> >> ELSE <<>>)

\* Request::endpoint for GetAccountActivitiesByType: the path kept as its pieces
GetAccountActivitiesByType_endpoint(r) ==
  <<"/v2/account/activities/", ActivityType_fmt(r.activity_type)>>

\* GetAccountActivitiesByType::new
GetAccountActivitiesByType_new(activity_type) ==
  [activity_type |-> activity_type, date_spec |-> None, sort |-> None,
   page_size |-> None, page_token |-> None]

\* GetAccountActivitiesByType::on_date
GetAccountActivitiesByType_on_date(r, date) ==
  [r EXCEPT !.date_spec = Some(DateSpec_Date(date))]

\* a before_date that leaves a single date in place
GetAccountActivitiesByType_before_date_KeepsDate(r, date) ==
  IF r.date_spec = None
  THEN [r EXCEPT !.date_spec = Some(DateSpec_UntilAfter(Some(date), None))]
  ELSE IF Unwrap(r.date_spec).variant = "Date" THEN r
  ELSE [r EXCEPT !.date_spec =
                   Some(DateSpec_UntilAfter(Some(date), Unwrap(r.date_spec).after))]

\* GetAccountActivitiesByType::before_date
GetAccountActivitiesByType_before_date(r, date) ==
  IF r.date_spec = None \/ Unwrap(r.date_spec).variant = "Date"
  THEN [r EXCEPT !.date_spec = Some(DateSpec_UntilAfter(Some(date), None))]
  ELSE [r EXCEPT !.date_spec =
                   Some(DateSpec_UntilAfter(Some(date), Unwrap(r.date_spec).after))]

\* GetAccountActivitiesByType::after_date
GetAccountActivitiesByType_after_date(r, date) ==
  IF r.date_spec = None \/ Unwrap(r.date_spec).variant = "Date"
  THEN [r EXCEPT !.date_spec = Some(DateSpec_UntilAfter(None, Some(date)))]
  ELSE [r EXCEPT !.date_spec =
                   Some(DateSpec_UntilAfter(Unwrap(r.date_spec).until, Some(date)))]

\* GetAccountActivitiesByType::sort
GetAccountActivitiesByType_sort(r, sort) == [r EXCEPT !.sort = Some(sort)]

\* GetAccountActivitiesByType::page_size
GetAccountActivitiesByType_page_size(r, page_size) ==
  [r EXCEPT !.page_size = Some(page_size)]

\* GetAccountActivitiesByType::page_token
GetAccountActivitiesByType_page_token(r, page_token) ==
  [r EXCEPT !.page_token = Some(page_token)]

\* Serialize for GetAccountActivitiesByType as a query: activity_type is
\* skipped, the others are written only when set
Ser_GetAccountActivitiesByType(r) ==
  (IF IsSome(r.date_spec) THEN Ser_DateSpec(Unwrap(r.date_spec)) ELSE <<>>) \o
  (IF IsSome(r.sort) THEN << <<"direction", Sort_tag(Unwrap(r.sort))>> >> ELSE <<>>) \o
  (IF IsSome(r.page_size)
   THEN << <<"page_size", usize_to_string(Unwrap(r.page_size))>> >> ELSE <<>>) \o
  (IF IsSome(r.page_token) THEN << <<"page_token", Unwrap(r.page_token)>> >> ELSE <<>>)

AccountActivitiesPage(page_size, page_token) ==
  [page_size |-> page_size, page_token |-> page_token]

\* a modifier that carries the token alone
QueryModifier_from_TokenOnly(page) == << <<"page_token", page.page_token>> >>

\* From<AccountActivitiesPage> for QueryModifier
QueryModifier_from(page) ==
  << <<"page_size", usize_to_string(page.page_size)>>,
     <<"page_token", page.page_token>> >>

\* the page size a cursor carries when there is no previous cursor
DefaultPageSize == 100

\* a paginator that takes the token from the first item of the page
paginator_FirstItem(prev, res) ==
  IF res = <<>> THEN None
  ELSE Some(AccountActivitiesPage(
              IF IsSome(prev) THEN Unwrap(prev).page_size ELSE DefaultPageSize,
              Activity_id(res[1])))

\* a paginator that also stops on a page shorter than the page size
paginator_StopOnShortPage(prev, res) ==
  LET page_size == IF IsSome(prev) THEN Unwrap(prev).page_size ELSE DefaultPageSize IN
  IF Len(res) < page_size THEN None
  ELSE Some(AccountActivitiesPage(page_size, Activity_id(res[Len(res)])))

\* a closure that answers an empty page with the cursor it was given
paginator_KeepsCursor(prev, res) ==
  IF res = <<>> THEN prev
  ELSE Some(AccountActivitiesPage(
              IF IsSome(prev) THEN Unwrap(prev).page_size ELSE DefaultPageSize,
              Activity_id(res[Len(res)])))

\* PaginatedRequest::paginator: the closure given to QueryPaginator::new,
\* res.last().map(|x| AccountActivitiesPage {..})
paginator(prev, res) ==
  IF res = <<>> THEN None
  ELSE Some(AccountActivitiesPage(
              IF IsSome(prev) THEN Unwrap(prev).page_size ELSE DefaultPageSize,
              Activity_id(res[Len(res)])))

\* a paginator whose previous cursor is kept in one place for all sequences:
\* once the first sequence has a cursor, every sequence is given that one
paginator_prev_Shared(all, s) ==
  IF IsSome(all[1].cursor) THEN all[1].cursor ELSE all[s].cursor

\* the previous cursor the closure of sequence s is given: that sequence's own
paginator_prev(all, s) == all[s].cursor

IsModified(pair, modifier) == \E i \in 1..Len(modifier) : modifier[i][1] = pair[1]
RECURSIVE WithoutKeys(_, _)
WithoutKeys(query, modifier) ==
  IF query = <<>> THEN <<>>
  ELSE (IF IsModified(Head(query), modifier) THEN <<>> ELSE <<Head(query)>>)
       \o WithoutKeys(Tail(query), modifier)

\* the engine's merge of a cursor into the request's query: the modifier's
\* entries replace the entries of the same key
ApplyModifier(query, modifier) == WithoutKeys(query, modifier) \o modifier

\* the query of the next request of a sequence
NextQuery(req, state, cur) ==
  IF state = "Idle" THEN Ser_GetAccountActivitiesByType(req)
  ELSE ApplyModifier(Ser_GetAccountActivitiesByType(req), QueryModifier_from(Unwrap(cur)))

\* an engine that starts over when the paginator returns no cursor
StateAfter_Restarts(next) == IF IsSome(next) THEN "HasCursor" ELSE "Idle"

\* the engine's state after a response, from what the paginator returned
StateAfter(next) == IF IsSome(next) THEN "HasCursor" ELSE "Exhausted"

RECURSIVE WithoutSeen(_, _)
WithoutSeen(acc, page) ==
  IF page = <<>> THEN acc
  ELSE WithoutSeen(IF \E i \in 1..Len(acc) : Activity_id(acc[i]) = Activity_id(Head(page))
                   THEN acc ELSE Append(acc, Head(page)),
                   Tail(page))

\* a collection that drops an activity whose id was already collected
collect_Dedup(acc, page) == WithoutSeen(acc, page)

\* examples/account_activities.rs: try_flatten_iters().collect() appends
\* the items of every produced page, in order
collect(acc, page) == acc \o page


(* ------------------------------ GetOrders ----------------------------- *)
\* the values a derived Serialize hands to a serializer
SerStr(s) == [t |-> "str", v |-> s]
SerNone == [t |-> "none", v |-> ""]
SerSeq(elements) == [t |-> "seq", v |-> elements]

\* enum QueryOrderStatus, #[serde(rename_all = "lowercase")]
QueryOrderStatus_tag(status) ==
  CASE status = "Open" -> "open" [] status = "Closed" -> "closed" [] status = "All" -> "all"

\* GetOrders::new (Default)
GetOrders_new ==
  [status |-> None, limit |-> None, after |-> None, until |-> None,
   sort |-> None, nested |-> None, symbols |-> None]

\* GetOrders::status
GetOrders_status(r, status) == [r EXCEPT !.status = Some(status)]

\* GetOrders::limit
GetOrders_limit(r, limit) == [r EXCEPT !.limit = Some(limit)]

\* GetOrders::nested
GetOrders_nested(r, nested) == [r EXCEPT !.nested = Some(nested)]

\* GetOrders::symbols: the symbols collected into a Vec<String>
GetOrders_symbols(r, symbols) == [r EXCEPT !.symbols = Some(symbols)]

\* Serialize for GetOrders (derived): status is always written, the others
\* only when set; symbols is written as the Vec it is, a sequence
Ser_GetOrders(r) ==
  << <<"status", IF IsSome(r.status) THEN SerStr(QueryOrderStatus_tag(Unwrap(r.status)))
                 ELSE SerNone>> >> \o
  (IF IsSome(r.limit) THEN << <<"limit", SerStr(usize_to_string(Unwrap(r.limit)))>> >>
   ELSE <<>>) \o
  (IF IsSome(r.after) THEN << <<"after", SerStr(Unwrap(r.after))>> >> ELSE <<>>) \o
  (IF IsSome(r.until) THEN << <<"until", SerStr(Unwrap(r.until))>> >> ELSE <<>>) \o
  (IF IsSome(r.sort) THEN << <<"direction", SerStr(Sort_tag(Unwrap(r.sort)))>> >>
   ELSE <<>>) \o
  (IF IsSome(r.nested)
   THEN << <<"nested", SerStr(IF Unwrap(r.nested) THEN "true" ELSE "false")>> >>
   ELSE <<>>) \o
  (IF IsSome(r.symbols) THEN << <<"symbols", SerSeq(Unwrap(r.symbols))>> >> ELSE <<>>)

\* the pairs a query string is made of: a None value gives no pair
RECURSIVE QueryPairs(_)
QueryPairs(fields) ==
  IF fields = <<>> THEN <<>>
  ELSE (IF Head(fields)[2].t = "none" THEN <<>>
        ELSE << <<Head(fields)[1], Head(fields)[2].v>> >>) \o QueryPairs(Tail(fields))

\* Request::data for GetOrders, RequestData::Query(self): the query string's
\* serializer takes text values and refuses a sequence
GetOrders_data(r) ==
  LET fields == Ser_GetOrders(r) IN
  IF \E i \in 1..Len(fields) : fields[i][2].t = "seq"
  THEN Err("unsupported value")
  ELSE Ok(QueryPairs(fields))

(* ----------------------------- field codecs --------------------------- *)
\* a JSON number token
JNumber(n) == [t |-> "number", v |-> n]

DigitChars == {"0", "1", "2", "3", "4", "5", "6", "7", "8", "9"}
DigitValue(c) ==
  CASE c = "0" -> 0 [] c = "1" -> 1 [] c = "2" -> 2 [] c = "3" -> 3 [] c = "4" -> 4
    [] c = "5" -> 5 [] c = "6" -> 6 [] c = "7" -> 7 [] c = "8" -> 8 [] c = "9" -> 9
IsDigits(s) == Len(s) > 0 /\ \A i \in 1..Len(s) : s[i] \in DigitChars

RECURSIVE DigitsValue(_)
DigitsValue(s) ==
  IF s = <<>> THEN 0
  ELSE 10 * DigitsValue(SubSeq(s, 1, Len(s) - 1)) + DigitValue(s[Len(s)])

\* a parser that reads the digits before a '.' and drops the rest
usize_from_str_Truncating(s) ==
  LET digits == IF Len(s) > 0 /\ s[1] = "+" THEN Tail(s) ELSE s
      whole == IF HasChar(digits, ".") THEN Unwrap(split_once(digits, "."))[1] ELSE digits
  IN  IF IsDigits(whole) THEN Ok(DigitsValue(whole)) ELSE Err("ParseIntError")

\* usize::from_str: an optional '+', then one or more digits
usize_from_str(s) ==
  LET digits == IF Len(s) > 0 /\ s[1] = "+" THEN Tail(s) ELSE s
  IN  IF IsDigits(digits) THEN Ok(DigitsValue(digits)) ELSE Err("ParseIntError")

\* i32::from_str: an optional '+' or '-', then one or more digits
i32_from_str(s) ==
  LET digits == IF Len(s) > 0 /\ s[1] \in {"+", "-"} THEN Tail(s) ELSE s
  IN  IF IsDigits(digits)
      THEN Ok(IF s[1] = "-" THEN 0 - DigitsValue(digits) ELSE DigitsValue(digits))
      ELSE Err("ParseIntError")

RECURSIVE usize_fmt(_)
\* Display::fmt for usize, as a sequence of characters
usize_fmt(n) ==
  IF n < 10 THEN <<Digit(n)>> ELSE Append(usize_fmt(n \div 10), Digit(n % 10))

\* Display::fmt for i32
i32_fmt(n) == IF n < 0 THEN <<"-">> \o usize_fmt(0 - n) ELSE usize_fmt(n)

\* T::from_str and Display::fmt for the type T of a quantity field
T_from_str(T, s) == IF T = "usize" THEN usize_from_str(s) ELSE i32_from_str(s)
T_fmt(T, value) == IF T = "usize" THEN usize_fmt(value) ELSE i32_fmt(value)

\* a field decoder that also takes the number token
from_str_AnyToken(T, token) ==
  IF token.t = "string" THEN T_from_str(T, token.v)
  ELSE IF token.t = "number" THEN Ok(token.v)
  ELSE Err("invalid type")

\* utils::from_str: String::deserialize, then T::from_str
from_str(T, token) ==
  IF token.t = "string" THEN T_from_str(T, token.v) ELSE Err("invalid type: expected a string")

\* utils::to_string: serializer.collect_str(value)
to_string(T, value) == JString(T_fmt(T, value))

\* utils::to_string_optional
to_string_optional(T, value) ==
  IF IsSome(value) THEN JString(T_fmt(T, Unwrap(value))) ELSE JNull

\* utils::from_str_optional: Value::deserialize, then a string is parsed and
\* every other value gives None
from_str_optional(T, token) ==
  IF token.t = "string"
  THEN LET r == T_from_str(T, token.v) IN IF r.ok THEN Ok(Some(r.val)) ELSE r
  ELSE Ok(None)

(* --------------------------- Activity decoding ------------------------ *)
Dot == "."

\* Decimal::from_str on plain decimal text: digits, optionally '.' and digits
Decimal_from_str(s) ==
  LET parts == split_once(s, Dot)
      whole == IF IsSome(parts) THEN Unwrap(parts)[1] ELSE s
      frac  == IF IsSome(parts) THEN Unwrap(parts)[2] ELSE <<>>
  IN  IF IsDigits(whole) /\ (IsSome(parts) => IsDigits(frac))
      THEN Ok(Decimal_new(DigitsValue(whole \o frac), Len(frac)))
      ELSE Err("Invalid decimal")

\* Deserialize for Decimal: a string is parsed, a number is taken as it is
Decimal_deserialize(token) ==
  IF token.t = "string" THEN Decimal_from_str(token.v)
  ELSE IF token.t = "number" THEN Ok(Decimal_new(token.v, 0))
  ELSE Err("invalid type: expected a Decimal")

\* Deserialize for an Option field without deserialize_with: an absent key or
\* a null gives None
De_Option(p, k) ==
  IF HasKey(p, k) /\ Get(p, k) # JNull THEN Some(Get(p, k).v) ELSE None

\* the keys Activity::TradeActivity cannot be decoded without
TradeActivity_fields ==
  {"activity_type", "cum_qty", "id", "leaves_qty", "price", "qty", "side",
   "symbol", "transaction_time", "order_id", "type"}

\* the keys Activity::NonTradeActivity cannot be decoded without: the fields
\* that are not Option, and qty, whose deserialize_with has no default
NonTradeActivity_fields == {"activity_type", "id", "date", "net_amount", "qty"}

\* the derived Deserialize of the variant TradeActivity
De_TradeActivity(p) ==
  IF \A k \in TradeActivity_fields : HasKey(p, k)
  THEN LET qty == Decimal_deserialize(Get(p, "qty"))
       IN  IF qty.ok
           THEN Ok([variant |-> "TradeActivity", id |-> Get(p, "id").v, qty |-> qty.val])
           ELSE qty
  ELSE Err("missing field")

\* the derived Deserialize of the variant NonTradeActivity
De_NonTradeActivity(p) ==
  IF \A k \in NonTradeActivity_fields : HasKey(p, k)
  THEN LET qty == from_str_optional("i32", Get(p, "qty"))
       IN  IF qty.ok
           THEN Ok([variant |-> "NonTradeActivity", id |-> Get(p, "id").v,
                    symbol |-> De_Option(p, "symbol"), qty |-> qty.val,
                    per_share_amount |-> De_Option(p, "per_share_amount")])
           ELSE qty
  ELSE Err("missing field")

\* an untagged enum that tries its variants last to first
De_Activity_NonTradeFirst(p) ==
  LET nontrade == De_NonTradeActivity(p)
  IN  IF nontrade.ok THEN nontrade
      ELSE LET trade == De_TradeActivity(p)
           IN  IF trade.ok THEN trade
               ELSE Err("data did not match any variant of untagged enum Activity")

\* #[serde(untagged)] enum Activity: the variants are tried in declaration
\* order and the first that decodes is the result
De_Activity(p) ==
  LET trade == De_TradeActivity(p)
  IN  IF trade.ok THEN trade
      ELSE LET nontrade == De_NonTradeActivity(p)
           IN  IF nontrade.ok THEN nontrade
               ELSE Err("data did not match any variant of untagged enum Activity")

(* ----------------------- Order / Position decoding -------------------- *)
\* Deserialize for Option<Decimal>: an absent key or a null gives None
De_OptionDecimal(p, k) ==
  IF ~HasKey(p, k) \/ Get(p, k) = JNull THEN Ok(None)
  ELSE LET d == Decimal_deserialize(Get(p, k))
       IN  IF d.ok THEN Ok(Some(d.val)) ELSE d

\* Deserialize for a Decimal field of a variant: the key must be there
De_RequiredDecimal(p, k) ==
  IF HasKey(p, k) THEN Decimal_deserialize(Get(p, k)) ELSE Err("missing field")

\* the named fields of struct Order: their keys are taken by the struct itself
Order_fields ==
  {"id", "client_order_id", "created_at", "updated_at", "submitted_at", "filled_at",
   "expired_at", "canceled_at", "failed_at", "replaced_at", "replaced_by", "replaces",
   "asset_id", "symbol", "asset_class", "qty", "filled_qty", "filled_avg_price",
   "side", "time_in_force", "status", "extended_hours", "legs", "trail_percent",
   "trail_price", "hwm"}

\* a flattened field that is handed every entry of the payload
Flattened_AllEntries(p) == p

\* #[serde(flatten)] on Order.order_type: the flattened field is handed the
\* entries whose key is not a named field of Order
Flattened(p) ==
  LET Other(pair) == pair[1] \notin Order_fields IN SelectSeq(p, Other)

\* Deserialize for OrderType, #[serde(tag = "type", rename_all = "snake_case")]
De_OrderType(p) ==
  IF ~HasKey(p, "type") THEN Err("missing field")
  ELSE LET tag == Get(p, "type")
           limit_price == De_RequiredDecimal(p, "limit_price")
           stop_price == De_RequiredDecimal(p, "stop_price")
           trail_price == De_OptionDecimal(p, "trail_price")
           trail_percent == De_OptionDecimal(p, "trail_percent")
       IN  CASE tag = JString("market") -> Ok(Market)
             [] tag = JString("limit") ->
                  IF limit_price.ok THEN Ok(Limit(limit_price.val)) ELSE limit_price
             [] tag = JString("stop") ->
                  IF stop_price.ok THEN Ok(Stop(stop_price.val)) ELSE stop_price
             [] tag = JString("stop_limit") ->
                  IF ~limit_price.ok THEN limit_price
                  ELSE IF ~stop_price.ok THEN stop_price
                  ELSE Ok(StopLimit(limit_price.val, stop_price.val))
             [] tag = JString("trailing_stop") ->
                  IF ~trail_price.ok THEN trail_price
                  ELSE IF ~trail_percent.ok THEN trail_percent
                  ELSE Ok(TrailingStop(trail_price.val, trail_percent.val))
             [] OTHER -> Err("unknown variant")

\* Deserialize for Order, for the quantity fields, the order type and the
\* trail fields
De_Order(p) ==
  LET qty == from_str("usize", Get(p, "qty"))
      filled_qty == from_str("usize", Get(p, "filled_qty"))
      order_type == De_OrderType(Flattened(p))
      trail_percent == De_OptionDecimal(p, "trail_percent")
      trail_price == De_OptionDecimal(p, "trail_price")
  IN  IF ~qty.ok THEN qty
      ELSE IF ~filled_qty.ok THEN filled_qty
      ELSE IF ~trail_percent.ok THEN trail_percent
      ELSE IF ~trail_price.ok THEN trail_price
      ELSE IF ~order_type.ok THEN order_type
      ELSE Ok([qty |-> qty.val, filled_qty |-> filled_qty.val,
               order_type |-> order_type.val,
               trail_percent |-> trail_percent.val, trail_price |-> trail_price.val])

\* Serialize for Order, for the two quantity fields
Ser_Order(o) ==
  <<<<"qty", to_string("usize", o.qty)>>,
    <<"filled_qty", to_string("usize", o.filled_qty)>>>>

\* Deserialize for Position, for the quantity field
De_Position(p) ==
  LET qty == from_str("i32", Get(p, "qty"))
  IN  IF qty.ok THEN Ok([qty |-> qty.val]) ELSE qty

(* ------------------------ response classification --------------------- *)
\* the Response type of each order request
ResponseType(request) ==
  CASE request = "GetOrder" -> "Order"
    [] request = "SubmitOrder" -> "Order"
    [] request = "GetOrders" -> "Vec<Order>"
    [] request = "CancelOrder" -> "EmptyResponse"

EmptyResponse == [variant |-> "EmptyResponse"]
EmptyBody == ""
NoContent == 204
IsSuccess(status) == status \in 200..299

StatusError(status, body) == [kind |-> "Status", code |-> status, body |-> body]
DecodeError == [kind |-> "Decode"]

\* the decoder of a response type, on the body of a response: the body is
\* named by the type it is a well-formed encoding of
DecodeBody(type, body) == IF body = type THEN Ok(body) ELSE Err(DecodeError)

\* a client that hands every body to the decoder before it looks at the status
Client_result_DecodeFirst(request, status, body) ==
  LET decoded == DecodeBody(ResponseType(request), body)
  IN  IF decoded.ok THEN [result |-> decoded, decodes |-> 1]
      ELSE IF ~IsSuccess(status)
      THEN [result |-> Err(StatusError(status, body)), decodes |-> 1]
      ELSE [result |-> decoded, decodes |-> 1]

\* what send() returns for a response, and how often it ran the decoder
Client_result(request, status, body) ==
  IF ~IsSuccess(status)
  THEN [result |-> Err(StatusError(status, body)), decodes |-> 0]
  ELSE IF status = NoContent \/ body = EmptyBody
  THEN [result |-> Ok(EmptyResponse), decodes |-> 0]
  ELSE [result |-> DecodeBody(ResponseType(request), body), decodes |-> 1]

(* ----------------------- identifier test inputs ----------------------- *)
\* the nil UUID of test::construction
NilUuidText ==
  <<"0","0","0","0","0","0","0","0","-","0","0","0","0","-","0","0","0","0","-","0","0","0","0","-","0","0","0","0","0","0","0","0","0","0","0","0">>
\* the order id of orders.rs tests, in the forms Uuid::parse_str accepts
HyphenatedUuidText ==
  <<"9","0","4","8","3","7","e","3","-","3","b","7","6","-","4","7","e","c","-","b","4","3","2","-","0","4","6","d","b","6","2","1","5","7","1","b">>
UpperUuidText ==
  <<"9","0","4","8","3","7","E","3","-","3","B","7","6","-","4","7","E","C","-","B","4","3","2","-","0","4","6","D","B","6","2","1","5","7","1","B">>
SimpleUuidText ==
  <<"9","0","4","8","3","7","e","3","3","b","7","6","4","7","e","c","b","4","3","2","0","4","6","d","b","6","2","1","5","7","1","b">>
UrnUuidText == UrnPrefix \o HyphenatedUuidText
\* near misses: a non-hex digit, and a urn prefix before it
NotUuidText ==
  <<"9","0","4","8","3","7","e","3","-","3","b","7","6","-","4","7","e","c","-","b","4","3","2","-","0","4","6","d","b","6","2","1","5","7","1","g">>
UrnNotUuidText == UrnPrefix \o NotUuidText

UuidishTexts ==
  {NilUuidText, HyphenatedUuidText, UpperUuidText, SimpleUuidText, UrnUuidText,
   NotUuidText, UrnNotUuidText}

TextChars == {"A", "B", ":"}
PartChars == {"A", ":"}

\* the texts given to From<&str>
InputTexts == SeqsUpTo(TextChars, MaxStrLen) \cup UuidishTexts

Parts == SeqsUpTo(PartChars, MaxPartLen)
OptClasses == {None} \cup {Some(c) : c \in Parts}
OptRests == {None} \cup {Some(<<e, c>>) : e \in Parts, c \in OptClasses}

\* the Identifier values given to Display (the enum's fields are public)
InputIdents ==
  {Symbol(t, r) : t \in Parts, r \in OptRests}
    \cup {AssetId(Unwrap(Uuid_parse_str(NilUuidText))),
          AssetId(Unwrap(Uuid_parse_str(HyphenatedUuidText))),
          Symbol(HyphenatedUuidText, None),
          Symbol(SimpleUuidText, None),
          Symbol(<<"u","r","n">>, Some(<<<<"u","u","i","d">>, Some(HyphenatedUuidText)>>)),
          Symbol(<<"A","A","P","L">>, Some(<<<<"N","Y","S","E">>, Some(<<"u","s","_","e","q","u","i","t","y">>)>>))}

(* -------------------------- order test inputs -------------------------- *)
Prices == {Decimal_new(100, 0), Decimal_new(2985, 1)}
OptPrices == {None} \cup {Some(p) : p \in Prices}

\* the values a caller can pass to SubmitOrder::order_type: the constructors'
\* results and, the enum being public, any TrailingStop literal
OrderTypeArgs ==
  {OrderType_market}
    \cup {OrderType_limit(p) : p \in Prices}
    \cup {OrderType_stop(p) : p \in Prices}
    \cup {OrderType_stop_limit(p, q) : p \in Prices, q \in Prices}
    \cup {OrderType_trail_price(p) : p \in Prices}
    \cup {OrderType_trail_percent(p) : p \in Prices}
    \cup {TrailingStop(a, b) : a \in OptPrices, b \in OptPrices}

\* the calls a caller can make of the constructors of OrderType
OrderTypeCalls ==
  {[ctor |-> "market", args |-> <<>>]}
    \cup {[ctor |-> c, args |-> <<p>>] :
            c \in {"limit", "stop", "trail_price", "trail_percent"}, p \in Prices}
    \cup {[ctor |-> "stop_limit", args |-> <<p, q>>] : p \in Prices, q \in Prices}

TakeProfitArgs == {TakeProfitSpec(p) : p \in Prices}
StopLossArgs == {StopLossSpec(p, l) : p \in Prices, l \in OptPrices}

\* the values a caller can pass to SubmitOrder::order_class
OrderClassArgs ==
  {Simple}
    \cup {Bracket(tp, sl) : tp \in TakeProfitArgs, sl \in StopLossArgs}
    \cup {OneCancelsOther(tp, sl) : tp \in TakeProfitArgs, sl \in StopLossArgs}
    \cup {OneTriggersOther(OtoSpec_TakeProfit(tp)) : tp \in TakeProfitArgs}
    \cup {OneTriggersOther(OtoSpec_StopLoss(sl)) : sl \in StopLossArgs}

SymbolArgs == {"AAPL"}
QtyArgs == {15}
SideArgs == {"Buy", "Sell"}
TimeInForceArgs == {"Day", "GoodTilCancelled"}
ClientOrderIdArgs == {"A"}

(* ------------------------ pagination test inputs ----------------------- *)
\* what the server can put on a page
Activities == {TradeActivity("t1"), NonTradeActivity("n1")}
Pages == SeqsUpTo(Activities, MaxPageLen)

\* the requests a sequence is started from: new(), and
\* new().page_size(2).page_token("t0")
StartRequests ==
  {GetAccountActivitiesByType_new("Fill"),
   [GetAccountActivitiesByType_new("Fill") EXCEPT !.page_size = Some(2),
                                                  !.page_token = Some("t0")]}

(* -------------------------- decode test inputs ------------------------- *)
\* the keys of the payloads, in the order they are written
ActivityKeys ==
  <<"activity_type", "id", "cum_qty", "leaves_qty", "price", "qty", "side",
    "symbol", "transaction_time", "order_id", "type", "date", "net_amount",
    "per_share_amount">>

\* the key sets of the repository's TRADE_ACTIVITY and NONTRADE_ACTIVITY test
\* payloads, and of a payload that carries every key
TradePayloadKeys == TradeActivity_fields
NonTradePayloadKeys ==
  {"activity_type", "id", "date", "net_amount", "symbol", "qty", "per_share_amount"}
\* the fields of NonTradeActivity that are not Option
NonTradeRequiredKeys == {"activity_type", "id", "date", "net_amount"}
EveryPayloadKey == TradePayloadKeys \cup NonTradePayloadKeys

\* the full shapes with at most MaxMissing keys left out
PayloadKeySets ==
  {base \ missing :
     base \in {TradePayloadKeys, NonTradePayloadKeys, NonTradeRequiredKeys,
              EveryPayloadKey},
     missing \in {m \in SUBSET EveryPayloadKey : Cardinality(m) <= MaxMissing}}

\* "15", "0.5", "x", 15 and null
ActivityQtyTokens ==
  {JString(<<"1", "5">>), JString(<<"0", ".", "5">>), JString(<<"x">>),
   JNumber(15), JNull}

\* a payload with the given keys; every value but qty is well formed
Payload(keys, qty) ==
  LET Present(k) == k \in keys
      ks == SelectSeq(ActivityKeys, Present)
  IN  [i \in 1..Len(ks) |->
         <<ks[i], IF ks[i] = "qty" THEN qty
                  ELSE IF ks[i] = "id" THEN JString("a1") ELSE JString("v")>>]

\* every variant of ActivityType
ActivityTypeInputs == {ActivityTypes[i] : i \in 1..Len(ActivityTypes)}

ActivityPayloads == {Payload(keys, qty) : keys \in PayloadKeySets, qty \in ActivityQtyTokens}

QtyChars == {"0", "1", "5", ".", "+", "-"}
QtyTokens ==
  {JString(s) : s \in SeqsUpTo(QtyChars, MaxTokenLen)} \cup {JNumber(0), JNumber(15), JNull}
FilledQtyTokens ==
  {JString(<<"0">>), JString(<<"1", "5">>), JString(<<"1", ".", "5">>), JNumber(0)}

\* the type tags of an order payload
OrderTypeTags == {"market", "limit", "stop", "stop_limit", "trailing_stop"}
\* "1.05" and "2.5"
TrailText == <<"1", ".", "0", "5">>
PriceText == <<"2", ".", "5">>
\* an entry that is absent, null or the given text
OptionalEntries(key, text) == {<<>>, << <<key, JNull>> >>, << <<key, JString(text)>> >>}

\* payloads that differ in the quantities, with type market
QtyOrderPayloads ==
  {<<<<"qty", qty>>, <<"filled_qty", filled_qty>>, <<"type", JString("market")>>>> :
     qty \in QtyTokens, filled_qty \in FilledQtyTokens}

\* payloads that differ in the type and the trail fields, with both prices
TypedOrderPayloads ==
  {<<<<"qty", JString(<<"1", "5">>)>>, <<"filled_qty", JString(<<"0">>)>>,
     <<"type", JString(tag)>>, <<"limit_price", JString(PriceText)>>,
     <<"stop_price", JString(PriceText)>>>> \o trail_price \o trail_percent :
     tag \in OrderTypeTags,
     trail_price \in OptionalEntries("trail_price", TrailText),
     trail_percent \in OptionalEntries("trail_percent", TrailText)}

OrderPayloads == QtyOrderPayloads \cup TypedOrderPayloads
PositionPayloads == {<<<<"qty", qty>>>> : qty \in QtyTokens}

(* ------------------------- exchange test inputs ------------------------ *)
OrderRequests == {"GetOrder", "SubmitOrder", "GetOrders", "CancelOrder"}
Statuses == {200, 201, 204, 207, 400, 403, 404, 422, 500}
Bodies == {EmptyBody, "Order", "Vec<Order>", "garbage"}

(* -------------------------- builder test inputs ------------------------ *)
DateArgs == {"2020-01-01", "2021-06-30"}
SortArgs == {"Ascending", "Descending"}
PageSizeArgs == {2}
PageTokenArgs == {"t0"}

(* --------------------------- query test inputs ------------------------- *)
ActivityTypeArgs == {"Fill", "Dividend"}
ActivitySliceArgs == {<<>>, <<"Dividend">>, <<"Fill", "Fill">>, <<"Dividend", "Fill">>}
StatusArgs == {"Open", "All"}
LimitArgs == {5}
SymbolListArgs == {<<>>, <<"AAPL">>, <<"AAPL", "MSFT">>}
\* the requests a query run starts from
QueryStarts ==
  {[kind |-> "GetAccountActivities", req |-> GetAccountActivities_new],
   [kind |-> "GetOrders", req |-> GetOrders_new]} \cup
  {[kind |-> "GetAccountActivitiesByType", req |-> GetAccountActivitiesByType_new(t)] :
     t \in ActivityTypeArgs}

(* ------------------------ concurrency test inputs ---------------------- *)
Sequences == {1, 2}
\* the pages a server answers a concurrent sequence with: empty or one item
ShortPages == {<<>>} \cup {<<a>> : a \in Activities}

(* -------------------------- server test inputs ------------------------- *)
\* a server that holds a finite record of activities and hands each out once
FiniteServer(remaining) == [kind |-> "finite", remaining |-> remaining]
\* a server that has a further activity for every token it is asked about
EndlessServer == [kind |-> "endless", remaining |-> 0]
Servers == {FiniteServer(n) : n \in 0..MaxLedger} \cup {EndlessServer}

\* the pages a server may answer the next request with
ServerPages(server) ==
  IF server.kind = "endless" THEN Pages \ {<<>>}
  ELSE IF server.remaining = 0 THEN {<<>>}
  ELSE {p \in Pages : Len(p) >= 1 /\ Len(p) <= server.remaining}

\* the server after it has answered with the page p
ServerAfter(server, p) ==
  IF server.kind = "endless" THEN server
  ELSE FiniteServer(server.remaining - Len(p))

(* ------------------------------ state --------------------------------- *)
VARIABLES
  src,      \* identifier run: the input, [kind |-> "text" | "value", val |-> ...]
  mid,      \* identifier run: result of the first conversion, as an Option
  fin,      \* identifier run: result of the second conversion, as an Option
  ipc,      \* identifier run: "start", "mid" or "done"
  order,    \* the SubmitOrder being built
  lastType, \* the argument of the latest order_type call (Market before any)
  body,     \* the JSON body handed to the transport, as an Option
  opc,      \* order run: "building" or "sent"
  request,  \* pagination: the request send_paginated was given
  pstate,   \* pagination: "Idle", "HasCursor" or "Exhausted"
  cursor,   \* pagination: the current AccountActivitiesPage, as an Option
  sent,     \* pagination: the queries of the requests sent so far
  pages,    \* pagination: the pages received so far
  items,    \* pagination: the activities the caller has collected
  inflight, \* pagination: requests sent whose response has not arrived
  dec,      \* conversion run: [pc, target, input, result, encoded]
  http,     \* one request/response exchange: [pc, request, status, body, result, decodes]
  seqs,     \* two concurrent pagination sequences, each with its own state
  live,     \* a pagination sequence against a server with its own state
  qry       \* a request being built and encoded: [pc, kind, req, calls, path, out]

identVars == <<src, mid, fin, ipc>>
orderVars == <<order, lastType, body, opc>>
pageVars == <<request, pstate, cursor, sent, pages, items, inflight>>
moreVars == <<dec, http, seqs, live, qry>>
vars == <<src, mid, fin, ipc, order, lastType, body, opc,
          request, pstate, cursor, sent, pages, items, inflight, dec, http, seqs, live, qry>>

\* the parts of the state a specification does not exercise stay here
IdentIdle ==
  /\ src = [kind |-> "text", val |-> <<>>]
  /\ mid = None /\ fin = None /\ ipc = "idle"
OrderIdle ==
  /\ order = SubmitOrder_new("AAPL")
  /\ lastType = OrderType_market
  /\ body = None /\ opc = "idle"
PageIdle ==
  /\ request = GetAccountActivitiesByType_new("Fill")
  /\ pstate = "Off" /\ cursor = None
  /\ sent = <<>> /\ pages = <<>> /\ items = <<>> /\ inflight = 0
DecodeIdle == dec = [pc |-> "idle"]
HttpIdle == http = [pc |-> "idle"]
TwoIdle == seqs = <<>>
LiveIdle == live = [pc |-> "idle"]
QueryIdle == qry = [pc |-> "idle"]
MoreIdle == DecodeIdle /\ HttpIdle /\ TwoIdle /\ LiveIdle /\ QueryIdle

(* --------------------- identifier round-trip runs ---------------------- *)
IdentInit ==
  /\ src \in [kind : {"text"}, val : InputTexts] \cup [kind : {"value"}, val : InputIdents]
  /\ mid = None
  /\ fin = None
  /\ ipc = "start"
  /\ OrderIdle /\ PageIdle /\ MoreIdle

\* the value the next conversion is applied to
Current == IF ipc = "start" THEN src.val ELSE Unwrap(mid)
CurrentIsText == (src.kind = "text") <=> (ipc = "start")

\* s.into(): Identifier::from(&str)
DoIdentifierFrom ==
  /\ ipc \in {"start", "mid"}
  /\ CurrentIsText
  /\ IF ipc = "start"
     THEN mid' = Some(Identifier_from_str(Current)) /\ fin' = fin /\ ipc' = "mid"
     ELSE fin' = Some(Identifier_from_str(Current)) /\ mid' = mid /\ ipc' = "done"
  /\ UNCHANGED <<src, orderVars, pageVars, moreVars>>

\* id.to_string(): Display::fmt
DoIdentifierToString ==
  /\ ipc \in {"start", "mid"}
  /\ ~CurrentIsText
  /\ IF ipc = "start"
     THEN mid' = Some(Identifier_Display(Current)) /\ fin' = fin /\ ipc' = "mid"
     ELSE fin' = Some(Identifier_Display(Current)) /\ mid' = mid /\ ipc' = "done"
  /\ UNCHANGED <<src, orderVars, pageVars, moreVars>>

IdentNext == DoIdentifierFrom \/ DoIdentifierToString

SpecIdent == IdentInit /\ [][IdentNext]_vars

(* ------------------------- SubmitOrder builder ------------------------- *)
OrderInit ==
  /\ \E symbol \in SymbolArgs : order = SubmitOrder_new(symbol)
  /\ lastType = OrderType_market
  /\ body = None
  /\ opc = "building"
  /\ IdentIdle /\ PageIdle /\ MoreIdle

\* SubmitOrder::qty
SubmitOrder_qty ==
  /\ opc = "building"
  /\ \E qty \in QtyArgs : order' = [order EXCEPT !.qty = qty]
  /\ UNCHANGED <<lastType, body, opc, identVars, pageVars, moreVars>>

\* SubmitOrder::side
SubmitOrder_side ==
  /\ opc = "building"
  /\ \E side \in SideArgs : order' = [order EXCEPT !.side = side]
  /\ UNCHANGED <<lastType, body, opc, identVars, pageVars, moreVars>>

\* SubmitOrder::order_type
SubmitOrder_order_type ==
  /\ opc = "building"
  /\ \E order_type \in OrderTypeArgs :
       /\ order' = [order EXCEPT !.order_type = order_type]
       /\ lastType' = order_type
  /\ UNCHANGED <<body, opc, identVars, pageVars, moreVars>>

\* SubmitOrder::time_in_force
SubmitOrder_time_in_force ==
  /\ opc = "building"
  /\ \E time_in_force \in TimeInForceArgs :
       order' = [order EXCEPT !.time_in_force = time_in_force]
  /\ UNCHANGED <<lastType, body, opc, identVars, pageVars, moreVars>>

\* SubmitOrder::extended_hours
SubmitOrder_extended_hours ==
  /\ opc = "building"
  /\ \E extended_hours \in BOOLEAN :
       order' = [order EXCEPT !.extended_hours = extended_hours]
  /\ UNCHANGED <<lastType, body, opc, identVars, pageVars, moreVars>>

\* SubmitOrder::client_order_id
SubmitOrder_client_order_id ==
  /\ opc = "building"
  /\ \E client_order_id \in ClientOrderIdArgs :
       order' = [order EXCEPT !.client_order_id = Some(client_order_id)]
  /\ UNCHANGED <<lastType, body, opc, identVars, pageVars, moreVars>>

\* SubmitOrder::order_class
SubmitOrder_order_class ==
  /\ opc = "building"
  /\ \E order_class \in OrderClassArgs :
       order' = [order EXCEPT !.order_class = order_class]
  /\ UNCHANGED <<lastType, body, opc, identVars, pageVars, moreVars>>

\* client.send(&req): Request::data gives RequestData::Json(&self), which is
\* serialized into the body of the POST
SubmitOrder_data ==
  /\ opc = "building"
  /\ body' = Some(Ser_SubmitOrder(order))
  /\ opc' = "sent"
  /\ UNCHANGED <<order, lastType, identVars, pageVars, moreVars>>

OrderNext ==
  \/ SubmitOrder_qty
  \/ SubmitOrder_side
  \/ SubmitOrder_order_type
  \/ SubmitOrder_time_in_force
  \/ SubmitOrder_extended_hours
  \/ SubmitOrder_client_order_id
  \/ SubmitOrder_order_class
  \/ SubmitOrder_data

SpecOrder == OrderInit /\ [][OrderNext]_vars

(* ------------------------- pagination sequence ------------------------- *)
PageInit ==
  /\ request \in StartRequests
  /\ pstate = "Idle"
  /\ cursor = None
  /\ sent = <<>>
  /\ pages = <<>>
  /\ items = <<>>
  /\ inflight = 0
  /\ IdentIdle /\ OrderIdle /\ MoreIdle

\* a sequence that builds the next request while one is still outstanding
CanSend_Prefetch == pstate \in {"Idle", "HasCursor"}

\* the engine asks for the next page only when it is not awaiting one
CanSend == pstate \in {"Idle", "HasCursor"} /\ inflight = 0

\* the engine sends the request for the next page
SendPageRequest ==
  /\ CanSend
  /\ Len(sent) < MaxRequests
  /\ sent' = Append(sent, NextQuery(request, pstate, cursor))
  /\ inflight' = inflight + 1
  /\ UNCHANGED <<request, pstate, cursor, pages, items, identVars, orderVars, moreVars>>

\* the response arrives: the paginator derives the next cursor from it, the
\* page is produced to the caller, who collects its items
ReceivePage ==
  /\ inflight > 0
  /\ \E res \in Pages :
       LET next == paginator(cursor, res) IN
       /\ pages' = Append(pages, res)
       /\ pstate' = StateAfter(next)
       /\ cursor' = IF IsSome(next) THEN next ELSE cursor
       /\ items' = collect(items, res)
  /\ inflight' = inflight - 1
  /\ UNCHANGED <<request, sent, identVars, orderVars, moreVars>>

PageNext == SendPageRequest \/ ReceivePage

SpecPage == PageInit /\ [][PageNext]_vars

(* ----------------------------- decode runs ----------------------------- *)
DecodeInit ==
  /\ dec \in [pc : {"start"}, target : {"Activity"}, input : ActivityPayloads,
              result : {None}, encoded : {None}]
          \cup [pc : {"start"}, target : {"OrderType"}, input : OrderTypeCalls,
                result : {None}, encoded : {None}]
          \cup [pc : {"start"}, target : {"ActivityType"}, input : ActivityTypeInputs,
                result : {None}, encoded : {None}]
          \cup [pc : {"start"}, target : {"Order"}, input : OrderPayloads,
                result : {None}, encoded : {None}]
          \cup [pc : {"start"}, target : {"Position"}, input : PositionPayloads,
                result : {None}, encoded : {None}]
  /\ IdentIdle /\ OrderIdle /\ PageIdle /\ HttpIdle /\ TwoIdle /\ LiveIdle /\ QueryIdle

\* serde_json::from_str::<Activity>
Activity_deserialize ==
  /\ dec.pc = "start" /\ dec.target = "Activity"
  /\ dec' = [dec EXCEPT !.pc = "decoded", !.result = Some(De_Activity(dec.input))]
  /\ UNCHANGED <<identVars, orderVars, pageVars, http, seqs, live, qry>>

\* serde_json::from_str::<Order>
Order_deserialize ==
  /\ dec.pc = "start" /\ dec.target = "Order"
  /\ dec' = [dec EXCEPT !.pc = "decoded", !.result = Some(De_Order(dec.input))]
  /\ UNCHANGED <<identVars, orderVars, pageVars, http, seqs, live, qry>>

\* serde_json::from_str::<Position>
Position_deserialize ==
  /\ dec.pc = "start" /\ dec.target = "Position"
  /\ dec' = [dec EXCEPT !.pc = "decoded", !.result = Some(De_Position(dec.input))]
  /\ UNCHANGED <<identVars, orderVars, pageVars, http, seqs, live, qry>>

\* serde_json::to_string(&order) of a decoded Order
Order_serialize ==
  /\ dec.pc = "decoded" /\ dec.target = "Order"
  /\ Unwrap(dec.result).ok
  /\ dec' = [dec EXCEPT !.pc = "encoded",
                        !.encoded = Some(Ser_Order(Unwrap(dec.result).val))]
  /\ UNCHANGED <<identVars, orderVars, pageVars, http, seqs, live, qry>>

\* OrderType::market(), ::limit(p), ::stop(p), ::stop_limit(p, q),
\* ::trail_price(p), ::trail_percent(p)
OrderType_construct ==
  /\ dec.pc = "start" /\ dec.target = "OrderType"
  /\ dec' = [dec EXCEPT !.pc = "decoded", !.result = Some(Ok(OrderType_call(dec.input)))]
  /\ UNCHANGED <<identVars, orderVars, pageVars, http, seqs, live, qry>>

\* activity_type.to_string(), as in the path of GetAccountActivitiesByType and
\* in the activity_types value of GetAccountActivities
ActivityType_to_string ==
  /\ dec.pc = "start" /\ dec.target = "ActivityType"
  /\ dec' = [dec EXCEPT !.pc = "encoded", !.encoded = Some(ActivityType_fmt(dec.input))]
  /\ UNCHANGED <<identVars, orderVars, pageVars, http, seqs, live, qry>>

\* the derived Deserialize of ActivityType on the code, as for the
\* activity_type field of an Activity
ActivityType_deserialize ==
  /\ dec.pc = "encoded" /\ dec.target = "ActivityType"
  /\ dec' = [dec EXCEPT !.pc = "decoded",
                        !.result = Some(De_ActivityType(Unwrap(dec.encoded)))]
  /\ UNCHANGED <<identVars, orderVars, pageVars, http, seqs, live, qry>>

DecodeNext ==
  \/ ActivityType_to_string
  \/ ActivityType_deserialize
  \/ OrderType_construct
  \/ Activity_deserialize
  \/ Order_deserialize
  \/ Position_deserialize
  \/ Order_serialize

SpecDecode == DecodeInit /\ [][DecodeNext]_vars

(* ------------------------ one request, one response -------------------- *)
SendInit ==
  /\ http \in [pc : {"ready"}, request : OrderRequests, status : {0}, body : {EmptyBody},
               result : {None}, decodes : {0}]
  /\ IdentIdle /\ OrderIdle /\ PageIdle /\ DecodeIdle /\ TwoIdle /\ LiveIdle /\ QueryIdle

\* client.send(&req): the request goes to the transport
Client_send ==
  /\ http.pc = "ready"
  /\ http' = [http EXCEPT !.pc = "awaiting"]
  /\ UNCHANGED <<identVars, orderVars, pageVars, dec, seqs, live, qry>>

\* the response arrives and send() returns
Client_receive ==
  /\ http.pc = "awaiting"
  /\ \E status \in Statuses, response_body \in Bodies :
       LET r == Client_result(http.request, status, response_body) IN
       http' = [http EXCEPT !.pc = "done", !.status = status, !.body = response_body,
                            !.result = Some(r.result), !.decodes = r.decodes]
  /\ UNCHANGED <<identVars, orderVars, pageVars, dec, seqs, live, qry>>

SendNext == Client_send \/ Client_receive

SpecSend == SendInit /\ [][SendNext]_vars

(* -------------- pagination sequence over a built request --------------- *)
BuildInit ==
  /\ request = GetAccountActivitiesByType_new("Fill")
  /\ pstate = "Building"
  /\ cursor = None
  /\ sent = <<>>
  /\ pages = <<>>
  /\ items = <<>>
  /\ inflight = 0
  /\ IdentIdle /\ OrderIdle /\ MoreIdle

on_date ==
  /\ pstate = "Building"
  /\ \E date \in DateArgs : request' = GetAccountActivitiesByType_on_date(request, date)
  /\ UNCHANGED <<pstate, cursor, sent, pages, items, inflight, identVars, orderVars, moreVars>>

before_date ==
  /\ pstate = "Building"
  /\ \E date \in DateArgs : request' = GetAccountActivitiesByType_before_date(request, date)
  /\ UNCHANGED <<pstate, cursor, sent, pages, items, inflight, identVars, orderVars, moreVars>>

after_date ==
  /\ pstate = "Building"
  /\ \E date \in DateArgs : request' = GetAccountActivitiesByType_after_date(request, date)
  /\ UNCHANGED <<pstate, cursor, sent, pages, items, inflight, identVars, orderVars, moreVars>>

sort ==
  /\ pstate = "Building"
  /\ \E s \in SortArgs : request' = GetAccountActivitiesByType_sort(request, s)
  /\ UNCHANGED <<pstate, cursor, sent, pages, items, inflight, identVars, orderVars, moreVars>>

page_size ==
  /\ pstate = "Building"
  /\ \E n \in PageSizeArgs : request' = GetAccountActivitiesByType_page_size(request, n)
  /\ UNCHANGED <<pstate, cursor, sent, pages, items, inflight, identVars, orderVars, moreVars>>

page_token ==
  /\ pstate = "Building"
  /\ \E t \in PageTokenArgs : request' = GetAccountActivitiesByType_page_token(request, t)
  /\ UNCHANGED <<pstate, cursor, sent, pages, items, inflight, identVars, orderVars, moreVars>>

\* client.send_paginated(&req): the sequence starts, nothing is sent yet
send_paginated ==
  /\ pstate = "Building"
  /\ pstate' = "Idle"
  /\ UNCHANGED <<request, cursor, sent, pages, items, inflight, identVars, orderVars, moreVars>>

BuildNext ==
  \/ on_date
  \/ before_date
  \/ after_date
  \/ sort
  \/ page_size
  \/ page_token
  \/ send_paginated
  \/ (Len(sent) < MaxMergedRequests /\ SendPageRequest)
  \/ ReceivePage

SpecBuild == BuildInit /\ [][BuildNext]_vars

(* ------------------ two concurrent pagination sequences ---------------- *)
TwoInit ==
  /\ seqs \in [Sequences -> [request : StartRequests, pstate : {"Idle"}, cursor : {None},
                             sent : {<<>>}, pages : {<<>>}, inflight : {0}]]
  /\ IdentIdle /\ OrderIdle /\ PageIdle /\ DecodeIdle /\ HttpIdle /\ LiveIdle /\ QueryIdle

\* sequence s sends the request for its next page
SeqSend(s) ==
  /\ seqs[s].pstate \in {"Idle", "HasCursor"} /\ seqs[s].inflight = 0
  /\ Len(seqs[s].sent) < MaxConcurrentRequests
  /\ seqs' = [seqs EXCEPT
                ![s].sent = Append(@, NextQuery(seqs[s].request, seqs[s].pstate, paginator_prev(seqs, s))),
                ![s].inflight = 1]
  /\ UNCHANGED <<identVars, orderVars, pageVars, dec, http, live, qry>>

\* the response to sequence s arrives and its paginator derives the next cursor
SeqReceive(s) ==
  /\ seqs[s].inflight = 1
  /\ \E res \in ShortPages :
       LET next == paginator(paginator_prev(seqs, s), res) IN
       seqs' = [seqs EXCEPT
                  ![s].pages = Append(@, res),
                  ![s].pstate = StateAfter(next),
                  ![s].cursor = IF IsSome(next) THEN next ELSE @,
                  ![s].inflight = 0]
  /\ UNCHANGED <<identVars, orderVars, pageVars, dec, http, live, qry>>

TwoNext == \E s \in Sequences : SeqSend(s) \/ SeqReceive(s)

SpecTwo == TwoInit /\ [][TwoNext]_vars

(* ------------- a pagination sequence followed without end -------------- *)
LiveInit ==
  /\ live \in [request : StartRequests, server : Servers, pstate : {"Idle"},
               cursor : {None}, query : {None}, page : {None}, inflight : {0}]
  /\ IdentIdle /\ OrderIdle /\ PageIdle /\ DecodeIdle /\ HttpIdle /\ TwoIdle /\ QueryIdle

\* the engine sends the request for the next page
LiveSend ==
  /\ live.pstate \in {"Idle", "HasCursor"} /\ live.inflight = 0
  /\ live' = [live EXCEPT
                !.query = Some(NextQuery(live.request, live.pstate, live.cursor)),
                !.inflight = 1]
  /\ UNCHANGED <<identVars, orderVars, pageVars, dec, http, seqs, qry>>

\* the server answers, the paginator derives the next cursor and the page is
\* produced to the caller
LiveReceive ==
  /\ live.inflight = 1
  /\ \E res \in ServerPages(live.server) :
       LET next == paginator(live.cursor, res) IN
       live' = [live EXCEPT
                  !.server = ServerAfter(live.server, res),
                  !.page = Some(res),
                  !.pstate = StateAfter(next),
                  !.cursor = IF IsSome(next) THEN next ELSE @,
                  !.inflight = 0]
  /\ UNCHANGED <<identVars, orderVars, pageVars, dec, http, seqs, qry>>

LiveNext == LiveSend \/ LiveReceive

\* fair progress: a sequence that can send does send (the caller keeps
\* polling the stream), and the transport answers every request
SpecLive ==
  LiveInit /\ [][LiveNext]_vars /\ WF_vars(LiveSend) /\ WF_vars(LiveReceive)

(* --------------------- a request built and encoded --------------------- *)
QueryInit ==
  /\ \E start \in QueryStarts :
       qry = [pc |-> "building", kind |-> start.kind, req |-> start.req,
              calls |-> <<>>, path |-> <<>>, out |-> None]
  /\ IdentIdle /\ OrderIdle /\ PageIdle
  /\ DecodeIdle /\ HttpIdle /\ TwoIdle /\ LiveIdle

QueryBuilding(kinds) ==
  /\ qry.pc = "building"
  /\ qry.kind \in kinds
  /\ Len(qry.calls) < MaxCalls

\* the request after a builder call, and the call added to the log
QueryCalled(name, arg, req) ==
  /\ qry' = [qry EXCEPT !.req = req, !.calls = Append(@, <<name, arg>>)]
  /\ UNCHANGED <<identVars, orderVars, pageVars, dec, http, seqs, live>>

DatedKinds == {"GetAccountActivities", "GetAccountActivitiesByType"}

Query_add_activity ==
  /\ QueryBuilding({"GetAccountActivities"})
  /\ \E t \in ActivityTypeArgs :
       QueryCalled("add_activity", t, GetAccountActivities_add_activity(qry.req, t))

Query_add_activities ==
  /\ QueryBuilding({"GetAccountActivities"})
  /\ \E ts \in ActivitySliceArgs :
       QueryCalled("add_activities", ts, GetAccountActivities_add_activities(qry.req, ts))

Query_on_date ==
  /\ QueryBuilding(DatedKinds)
  /\ \E date \in DateArgs :
       QueryCalled("on_date", date,
                   IF qry.kind = "GetAccountActivities"
                   THEN GetAccountActivities_on_date(qry.req, date)
                   ELSE GetAccountActivitiesByType_on_date(qry.req, date))

Query_before_date ==
  /\ QueryBuilding(DatedKinds)
  /\ \E date \in DateArgs :
       QueryCalled("before_date", date,
                   IF qry.kind = "GetAccountActivities"
                   THEN GetAccountActivities_before_date(qry.req, date)
                   ELSE GetAccountActivitiesByType_before_date(qry.req, date))

Query_after_date ==
  /\ QueryBuilding(DatedKinds)
  /\ \E date \in DateArgs :
       QueryCalled("after_date", date,
                   IF qry.kind = "GetAccountActivities"
                   THEN GetAccountActivities_after_date(qry.req, date)
                   ELSE GetAccountActivitiesByType_after_date(qry.req, date))

Query_status ==
  /\ QueryBuilding({"GetOrders"})
  /\ \E status \in StatusArgs :
       QueryCalled("status", status, GetOrders_status(qry.req, status))

Query_limit ==
  /\ QueryBuilding({"GetOrders"})
  /\ \E limit \in LimitArgs :
       QueryCalled("limit", limit, GetOrders_limit(qry.req, limit))

Query_nested ==
  /\ QueryBuilding({"GetOrders"})
  /\ \E nested \in BOOLEAN :
       QueryCalled("nested", nested, GetOrders_nested(qry.req, nested))

Query_symbols ==
  /\ QueryBuilding({"GetOrders"})
  /\ \E symbols \in SymbolListArgs :
       QueryCalled("symbols", symbols, GetOrders_symbols(qry.req, symbols))

\* Request::endpoint
Request_endpoint(kind, req) ==
  CASE kind = "GetAccountActivities" -> <<"/v2/account/activities">>
    [] kind = "GetAccountActivitiesByType" -> GetAccountActivitiesByType_endpoint(req)
    [] kind = "GetOrders" -> <<"/v2/orders">>

\* Request::data, RequestData::Query: the request encoded as a query string
Request_data(kind, req) ==
  CASE kind = "GetAccountActivities" -> Ok(Ser_GetAccountActivities(req))
    [] kind = "GetAccountActivitiesByType" -> Ok(Ser_GetAccountActivitiesByType(req))
    [] kind = "GetOrders" -> GetOrders_data(req)

\* client.send(&req): the path and the query are made from the request
Query_send ==
  /\ qry.pc = "building"
  /\ qry' = [qry EXCEPT !.pc = "encoded",
                        !.path = Request_endpoint(qry.kind, qry.req),
                        !.out = Some(Request_data(qry.kind, qry.req))]
  /\ UNCHANGED <<identVars, orderVars, pageVars, dec, http, seqs, live>>

QueryNext ==
  \/ Query_add_activity
  \/ Query_add_activities
  \/ Query_on_date
  \/ Query_before_date
  \/ Query_after_date
  \/ Query_status
  \/ Query_limit
  \/ Query_nested
  \/ Query_symbols
  \/ Query_send

SpecQuery == QueryInit /\ [][QueryNext]_vars

(* ======================= Pagination properties ======================== *)
LastOf(page) == page[Len(page)]
PageSizes == [n \in 1..Len(pages) |-> Len(pages[n])]

RECURSIVE Flatten(_)
Flatten(pp) == IF pp = <<>> THEN <<>> ELSE Head(pp) \o Flatten(Tail(pp))

\* C1: for every N >= 1 the page_token sent with request N+1 is the id of the
\* last item of page N, whichever kind of activity that item is, and the
\* first request carries exactly the caller's page_token (none when unset).
C1_TokenIsLastIdOfPrecedingPage ==
  /\ \A n \in 1..(Len(sent) - 1) :
       /\ n <= Len(pages)
       /\ pages[n] # <<>>
       /\ KeyCount(sent[n + 1], "page_token") = 1
       /\ Get(sent[n + 1], "page_token") = LastOf(pages[n]).id
  /\ Len(sent) >= 1 =>
       /\ HasKey(sent[1], "page_token") <=> IsSome(request.page_token)
       /\ HasKey(sent[1], "page_token") =>
            Get(sent[1], "page_token") = Unwrap(request.page_token)

\* request 2 went out with the id of page 1's last item, a NonTradeActivity
\* that follows a TradeActivity with another id
C1_Witness ==
  /\ Len(sent) >= 2
  /\ pages[1] = <<TradeActivity("t1"), NonTradeActivity("n1")>>
  /\ Get(sent[2], "page_token") = "n1"

\* C2: after a response the sequence is in HasCursor, with a cursor derived
\* from the page, iff the page is non-empty, and in Exhausted iff the page is
\* empty; a non-empty page shorter than the page size does not stop it.
C2_ContinuesIffPageNonEmpty ==
  /\ pages = <<>> => pstate = "Idle"
  /\ pages # <<>> =>
       /\ (pstate = "HasCursor") <=> (LastOf(pages) # <<>>)
       /\ (pstate = "Exhausted") <=> (LastOf(pages) = <<>>)
       /\ LastOf(pages) # <<>> =>
            /\ IsSome(cursor)
            /\ Unwrap(cursor).page_token = LastOf(LastOf(pages)).id

\* a page of one item, shorter than the page size, was followed by a request
C2_Witness ==
  /\ Len(pages) = 1
  /\ Len(pages[1]) = 1
  /\ Unwrap(cursor).page_size > Len(pages[1])
  /\ pstate = "HasCursor"
  /\ Len(sent) = 2

\* C3: the items the caller collects are exactly the items of the received
\* pages, in the order received, none dropped, reordered or deduplicated;
\* pages of sizes 2, 2, 1 followed by the empty page give exactly 5 items
\* and a stopped sequence that has made 4 requests.
C3_ItemsAreReceivedPagesInOrder ==
  /\ items = Flatten(pages)
  /\ PageSizes = <<2, 2, 1, 0>> =>
       /\ Len(items) = 5
       /\ pstate = "Exhausted"
       /\ Len(sent) = 4

\* the (2,2,1) sequence has run to its end, with ids repeating across pages
C3_Witness ==
  /\ PageSizes = <<2, 2, 1, 0>>
  /\ pages[1] = pages[2]
  /\ Len(items) = 5
  /\ pstate = "Exhausted"

\* C4: at most one request of a sequence is outstanding, and request N+1 is
\* sent only after the response to request N has arrived.
C4_OneRequestOutstanding ==
  /\ inflight <= 1
  /\ Len(sent) <= Len(pages) + 1
  /\ inflight = Len(sent) - Len(pages)

\* the third request is outstanding, two responses have arrived
C4_Witness ==
  /\ inflight = 1
  /\ Len(sent) = 3
  /\ Len(pages) = 2

\* the cursor the paginator derived from the first n pages
RECURSIVE CursorAfter(_)
CursorAfter(n) == paginator(IF n = 1 THEN None ELSE CursorAfter(n - 1), pages[n])

IsPagingPair(pair) == pair[1] \in {"page_size", "page_token"}
IsOtherPair(pair) == ~IsPagingPair(pair)

\* C18: the query of every request after the first has exactly one page_size
\* and one page_token, those of the cursor derived from the preceding page,
\* whatever the caller put on the request; every other parameter (direction,
\* date, until, after) is the same as on the original request.
C18_MergeReplacesPagingOnly ==
  \A n \in 2..Len(sent) :
    LET cur == Unwrap(CursorAfter(n - 1)) IN
    /\ KeyCount(sent[n], "page_size") = 1
    /\ KeyCount(sent[n], "page_token") = 1
    /\ Get(sent[n], "page_size") = usize_to_string(cur.page_size)
    /\ Get(sent[n], "page_token") = cur.page_token
    /\ SelectSeq(sent[n], IsOtherPair) =
         SelectSeq(Ser_GetAccountActivitiesByType(request), IsOtherPair)

\* a request with its own paging values, a direction and a date range has
\* had a cursor merged into its second query
C18_Witness ==
  /\ Len(sent) = 2
  /\ request.page_size = Some(2) /\ request.page_token = Some("t0")
  /\ IsSome(request.sort)
  /\ IsSome(request.date_spec)
  /\ HasKey(sent[2], "until") /\ HasKey(sent[2], "after") /\ HasKey(sent[2], "direction")
  /\ Get(sent[2], "page_size") = "100"

\* the cursor a sequence that runs alone derives from the first n of the pages pgs
RECURSIVE AloneCursor(_, _)
AloneCursor(pgs, n) ==
  paginator(IF n = 1 THEN None ELSE AloneCursor(pgs, n - 1), pgs[n])

\* the n-th query a sequence that runs alone sends for the request req when
\* the server answers with the pages pgs
AloneQuery(req, pgs, n) ==
  IF n = 1 THEN Ser_GetAccountActivitiesByType(req)
  ELSE ApplyModifier(Ser_GetAccountActivitiesByType(req),
                     QueryModifier_from(Unwrap(AloneCursor(pgs, n - 1))))

\* C19: under every interleaving of two pagination sequences, each sends the
\* queries, holds the cursor and is in the state that it would when running
\* alone against the same responses.
C19_SequencesIndependent ==
  seqs # <<>> =>
    \A s \in Sequences :
      LET q == seqs[s] IN
      /\ \A n \in 1..Len(q.sent) : q.sent[n] = AloneQuery(q.request, q.pages, n)
      /\ q.pages = <<>> => q.pstate = "Idle" /\ q.cursor = None
      /\ (q.pages # <<>> /\ q.pages[Len(q.pages)] # <<>>) =>
           q.pstate = "HasCursor" /\ q.cursor = AloneCursor(q.pages, Len(q.pages))
      /\ (q.pages # <<>> /\ q.pages[Len(q.pages)] = <<>>) => q.pstate = "Exhausted"

\* both sequences await their second page at once, with different cursors
C19_Witness ==
  /\ seqs # <<>>
  /\ \A s \in Sequences : seqs[s].inflight = 1 /\ Len(seqs[s].sent) = 2
  /\ seqs[1].cursor # seqs[2].cursor

LiveExhausted == live.pstate = "Exhausted" /\ live.inflight = 0

\* C20: every pagination sequence is finite: under fair progress it
\* eventually reaches Exhausted and produces no further pages.
C20_EveryRunExhausts == <>[]LiveExhausted

\* C20, amended: against a server that holds finitely many activities and
\* hands each out once, a sequence under fair progress eventually reaches
\* Exhausted and stays there.
C20_ExhaustsOnFiniteServer == (live.server.kind = "finite") ~> []LiveExhausted

\* a sequence has received the whole record of a finite server and the empty
\* page after it
C20_Witness ==
  /\ live.server = FiniteServer(0)
  /\ IsSome(live.cursor)
  /\ live.page = Some(<<>>)
  /\ LiveExhausted

\* the order of the pagination states
StateRank(state) ==
  CASE state = "Idle" -> 0 [] state = "HasCursor" -> 1 [] state = "Exhausted" -> 2

\* C21: the pagination state only moves forward, Idle to HasCursor to
\* Exhausted or Idle to Exhausted, and Exhausted is absorbing: from it no
\* request is sent, no page is produced and the state does not change.
C21_ForwardOnly ==
  [][/\ StateRank(pstate') >= StateRank(pstate)
     /\ pstate = "Exhausted" =>
          pstate' = "Exhausted" /\ sent' = sent /\ pages' = pages /\ items' = items]_vars

\* a sequence has stopped after at least one page, with requests to spare
C21_Witness ==
  /\ pstate = "Exhausted"
  /\ IsSome(cursor)
  /\ Len(sent) < MaxRequests
  /\ inflight = 0

(* ======================= SubmitOrder properties ======================= *)
Body == Unwrap(body)
BaseKeys ==
  {"symbol", "qty", "side", "type", "time_in_force", "extended_hours", "client_order_id"}
LegKeys == {"take_profit", "stop_loss"}

\* the wire tag the API documents for each order type
TypeTagOf(variant) ==
  CASE variant = "Market" -> "market"
    [] variant = "Limit" -> "limit"
    [] variant = "Stop" -> "stop"
    [] variant = "StopLimit" -> "stop_limit"
    [] variant = "TrailingStop" -> "trailing_stop"

\* C5: the body carries one top-level "type" tag, that of the OrderType set
\* last, and at top level limit_price iff Limit or StopLimit, stop_price iff
\* Stop or StopLimit, trail keys only for TrailingStop; with class Simple it
\* has no take_profit/stop_loss key.  Limit{100} with Simple gives
\* "type":"limit","limit_price":"100".
C5_TypeTagAndPriceKeys ==
  opc = "sent" =>
    /\ KeyCount(Body, "type") = 1
    /\ HasString(Body, "type", TypeTagOf(lastType.variant))
    /\ HasKey(Body, "limit_price") <=> lastType.variant \in {"Limit", "StopLimit"}
    /\ HasKey(Body, "stop_price") <=> lastType.variant \in {"Stop", "StopLimit"}
    /\ HasKey(Body, "limit_price") =>
         HasString(Body, "limit_price", Decimal_to_string(lastType.limit_price))
    /\ HasKey(Body, "stop_price") =>
         HasString(Body, "stop_price", Decimal_to_string(lastType.stop_price))
    /\ (HasKey(Body, "trail_price") \/ HasKey(Body, "trail_percent")) =>
         lastType.variant = "TrailingStop"
    /\ order.order_class = Simple => Keys(Body) \cap LegKeys = {}
    /\ (lastType = Limit(Decimal_new(100, 0)) /\ order.order_class = Simple) =>
         /\ HasString(Body, "type", "limit")
         /\ HasString(Body, "limit_price", "100")

\* a Limit{100} order of class Simple, set after other builder calls, was sent
C5_Witness ==
  /\ opc = "sent"
  /\ lastType = Limit(Decimal_new(100, 0))
  /\ order.order_class = Simple
  /\ order.qty = 15
  /\ HasString(Body, "limit_price", "100")

\* C6: a Bracket order is one flat object: order_class, take_profit and
\* stop_loss are top-level keys next to the base order fields, and
\* stop_loss.limit_price is present exactly when it was set.
C6_BracketIsFlat ==
  (opc = "sent" /\ order.order_class.variant = "Bracket") =>
    /\ BaseKeys \cup LegKeys \cup {"order_class"} \subseteq Keys(Body)
    /\ \A k \in Keys(Body) : KeyCount(Body, k) = 1
    /\ HasString(Body, "order_class", "bracket")
    /\ \A k \in BaseKeys : Get(Body, k).t # "object"
    /\ Get(Body, "take_profit") =
         JObject(<< <<"limit_price",
                      JString(Decimal_to_string(order.order_class.take_profit.limit_price))>> >>)
    /\ IsObjectAt(Body, "stop_loss")
    /\ HasString(Get(Body, "stop_loss").v, "stop_price",
                 Decimal_to_string(order.order_class.stop_loss.stop_price))
    /\ HasKey(Get(Body, "stop_loss").v, "limit_price")
         <=> IsSome(order.order_class.stop_loss.limit_price)
    /\ IsSome(order.order_class.stop_loss.limit_price) =>
         HasString(Get(Body, "stop_loss").v, "limit_price",
                   Decimal_to_string(Unwrap(order.order_class.stop_loss.limit_price)))

\* a Bracket with a stop-limit leg at 298.5 was sent
C6_Witness ==
  /\ opc = "sent"
  /\ order.order_class =
       Bracket(TakeProfitSpec(Decimal_new(100, 0)),
               StopLossSpec(Decimal_new(100, 0), Some(Decimal_new(2985, 1))))
  /\ HasString(Get(Body, "stop_loss").v, "limit_price", "298.5")

\* C7: a OneTriggersOther order carries the order_class tag and exactly one
\* of the keys take_profit and stop_loss at the top level of the body, the
\* leg's fields directly under it.
C7_OtoLegIsTopLevel ==
  (opc = "sent" /\ order.order_class.variant = "OneTriggersOther") =>
    /\ KeyCount(Body, "order_class") = 1
    /\ Cardinality(Keys(Body) \cap LegKeys) = 1
    /\ \A k \in Keys(Body) \cap LegKeys :
         /\ Get(Body, k).t = "object"
         /\ HasKey(Get(Body, k).v, IF k = "take_profit" THEN "limit_price" ELSE "stop_price")


\* C15: an optional field the caller left unset does not appear in the
\* encoded body at all: an unset client_order_id and the unset trail field of
\* a trailing-stop SubmitOrder are absent keys, not nulls.
C15_UnsetOptionalAbsent ==
  opc = "sent" =>
    /\ order.client_order_id = None => ~HasKey(Body, "client_order_id")
    /\ (order.order_type.variant = "TrailingStop" /\ order.order_type.trail_price = None)
         => ~HasKey(Body, "trail_price")
    /\ (order.order_type.variant = "TrailingStop" /\ order.order_type.trail_percent = None)
         => ~HasKey(Body, "trail_percent")

\* the objects a body carries at its top level and one level below
ObjectsOf(pairs) == {pairs[i][2] : i \in {j \in 1..Len(pairs) : pairs[j][2].t = "object"}}
CarriedObjects(pairs) ==
  ObjectsOf(pairs) \cup UNION {ObjectsOf(obj.v) : obj \in ObjectsOf(pairs)}

\* C17: no order of class Bracket or OneCancelsOther reaches the transport
\* without both its legs, and none of class OneTriggersOther without its one
\* leg: the class of a built order always holds its legs, and the body sent
\* carries each of them with its price, never dropped or defaulted.
C17_NoClassWithoutLegs ==
  opc = "sent" =>
    LET class == order.order_class IN
    /\ HasString(Body, "order_class", OrderClass_tag(class))
    /\ class.variant \in {"Bracket", "OneCancelsOther"} =>
         /\ IsObjectAt(Body, "take_profit")
         /\ HasString(Get(Body, "take_profit").v, "limit_price",
                      Decimal_to_string(class.take_profit.limit_price))
         /\ IsObjectAt(Body, "stop_loss")
         /\ HasString(Get(Body, "stop_loss").v, "stop_price",
                      Decimal_to_string(class.stop_loss.stop_price))
    /\ class.variant = "OneTriggersOther" =>
         \E obj \in CarriedObjects(Body) :
           IF class.spec.variant = "TakeProfit"
           THEN HasString(obj.v, "limit_price", Decimal_to_string(class.spec.leg.limit_price))
           ELSE HasString(obj.v, "stop_price", Decimal_to_string(class.spec.leg.stop_price))

\* a OneCancelsOther order has been sent with both legs in its body
C17_Witness ==
  /\ opc = "sent"
  /\ order.order_class.variant = "OneCancelsOther"
  /\ IsObjectAt(Body, "take_profit") /\ IsObjectAt(Body, "stop_loss")

Constructed == dec.target = "OrderType" /\ dec.pc = "decoded"

\* C25: every TrailingStop made by the constructors trail_price and
\* trail_percent has exactly one of trail_price and trail_percent set, the one
\* the constructor is named after, with the value given; the constructors
\* market, limit, stop and stop_limit never make a TrailingStop.
C25_TrailingStopOneOffset ==
  Constructed =>
    LET made == Unwrap(dec.result).val
        call == dec.input
    IN /\ Unwrap(dec.result).ok
       /\ call.ctor = "trail_price" =>
            /\ made.variant = "TrailingStop"
            /\ made.trail_price = Some(call.args[1])
            /\ made.trail_percent = None
       /\ call.ctor = "trail_percent" =>
            /\ made.variant = "TrailingStop"
            /\ made.trail_percent = Some(call.args[1])
            /\ made.trail_price = None
       /\ call.ctor \in {"market", "limit", "stop", "stop_limit"} =>
            made.variant # "TrailingStop"
       /\ made.variant = "TrailingStop" =>
            IsSome(made.trail_price) # IsSome(made.trail_percent)

\* trail_price was called and gave a TrailingStop
C25_Witness ==
  /\ Constructed
  /\ dec.input.ctor = "trail_price"
  /\ Unwrap(dec.result).val.variant = "TrailingStop"
  /\ IsSome(Unwrap(dec.result).val.trail_price)

(* ======================= Identifier properties ======================== *)
IsUuidText(s) == IsSome(Uuid_parse_str(s))
\* the text Display writes for a UUID: hyphenated, lower-case digits
IsCanonicalUuidText(s) == IsHyphenatedUuid(s) /\ \A i \in 1..Len(s) : s[i] \notin HexUpper

TextRunDone == src.kind = "text" /\ ipc = "done"
ValueRunDone == src.kind = "value" /\ ipc = "done"

\* C8 as stated: every text the parser accepts, every UUID spelling included,
\* is reproduced by format(parse(s)).
C8_RoundTripAnyAcceptedText ==
  TextRunDone => Unwrap(fin) = src.val

\* C8 (amended): for every text that is a bare symbol, symbol:exchange,
\* symbol:exchange:class, or a UUID in canonical spelling (hyphenated,
\* lower-case), format(parse(s)) = s.
C8_RoundTripText ==
  (TextRunDone /\ (IsUuidText(src.val) => IsCanonicalUuidText(src.val)))
    => Unwrap(fin) = src.val

\* a symbol:exchange:class text has been parsed and formatted again
C8_Witness ==
  /\ TextRunDone
  /\ Unwrap(mid).tag = "Symbol"
  /\ IsSome(Unwrap(mid).rest)
  /\ IsSome(Unwrap(Unwrap(mid).rest)[2])
  /\ Unwrap(fin) = src.val

\* the decision rule of C9, stated on the input text s and the result p
ParseRule(s, p) ==
  IF IsUuidText(s)
  THEN p.tag = "AssetId" /\ p.id = LowerAll(SelectSeq(UuidDigitsText(s), NotHyphen))
  ELSE IF ~HasChar(s, Colon) THEN p = Symbol(s, None)
  ELSE /\ p.tag = "Symbol"
       /\ ~HasChar(p.symbol, Colon)
       /\ IsSome(p.rest)
       /\ LET remainder == SubSeq(s, Len(p.symbol) + 2, Len(s))
              exchange == Unwrap(p.rest)[1]
              asset_class == Unwrap(p.rest)[2]
          IN  /\ s = p.symbol \o <<Colon>> \o remainder
              /\ IF ~HasChar(remainder, Colon)
                 THEN exchange = remainder /\ asset_class = None
                 ELSE /\ ~HasChar(exchange, Colon)
                      /\ IsSome(asset_class)
                      /\ remainder = exchange \o <<Colon>> \o Unwrap(asset_class)

\* C9: parse yields an Identifier for every text, and the result follows the
\* rule: UUID text -> AssetId; no ':' -> Symbol(s, None); else the text before
\* the first ':' is the symbol, and the remainder is the exchange, or exchange
\* and (verbatim, unsplit) asset class around the remainder's first ':'.
C9_ParseTotalAndRule ==
  (src.kind = "text" /\ ipc # "start")
    => /\ Unwrap(mid).tag \in {"Symbol", "AssetId"}
       /\ ParseRule(src.val, Unwrap(mid))

\* a text with three ':' was parsed: the class keeps the third ':' unsplit
C9_Witness ==
  /\ src.kind = "text" /\ ipc # "start"
  /\ src.val = <<"A", ":", "B", ":", ":">>
  /\ Unwrap(mid) = Symbol(<<"A">>, Some(<<<<"B">>, Some(<<":">>)>>))

\* C10 as stated: parse(format(id)) = id for every Identifier value.
C10_ParseInvertsFormat ==
  ValueRunDone => Unwrap(fin) = src.val

\* the Identifier values whose text parses back to themselves
Reparsable(id) ==
  \/ id.tag = "AssetId"
  \/ /\ id.tag = "Symbol"
     /\ ~HasChar(id.symbol, Colon)
     /\ IsSome(id.rest) => ~HasChar(Unwrap(id.rest)[1], Colon)
     /\ ~IsUuidText(Identifier_Display(id))

\* C10 (amended): parse(format(id)) = id for every AssetId and for every
\* Symbol whose ticker and exchange contain no ':' and whose formatted text is
\* not itself a valid UUID text.
C10_ParseInvertsFormatOfReparsable ==
  (ValueRunDone /\ Reparsable(src.val)) => Unwrap(fin) = src.val

\* a Symbol with exchange and asset class was formatted and parsed back
C10_Witness ==
  /\ ValueRunDone
  /\ src.val = Symbol(<<"A">>, Some(<<<<"A">>, Some(<<":", "A">>)>>))
  /\ Unwrap(mid) = <<"A", ":", "A", ":", ":", "A">>
  /\ Unwrap(fin) = src.val

(* ========================= Decoding properties ======================== *)
DecodedActivity == dec.pc = "decoded" /\ dec.target = "Activity"
DecResult == Unwrap(dec.result)
HasAll(p, ks) == \A k \in ks : HasKey(p, k)

\* the fields the specification lists as always present on a non-trade activity
NonTradeDocumentedFields == {"activity_type", "id", "date", "net_amount"}

\* every trade field is present, and qty is a decimal
TradeShape(p) ==
  /\ HasAll(p, TradeActivity_fields)
  /\ Get(p, "qty") \in {JString(<<"1", "5">>), JString(<<"0", ".", "5">>), JNumber(15)}

\* no side and no price, the documented non-trade fields are present, and
\* qty is absent, null or a whole number
NonTradeShape(p) ==
  /\ ~HasKey(p, "side") /\ ~HasKey(p, "price")
  /\ HasAll(p, NonTradeDocumentedFields)
  /\ HasKey(p, "qty") => Get(p, "qty") \in {JString(<<"1", "5">>), JNumber(15), JNull}

\* C11: an activity payload is decoded by shape, TradeActivity first: with
\* all the trade fields it is a TradeActivity; without side and price but with
\* date and net_amount it is a NonTradeActivity; lacking a field of each shape
\* it is a decode error.
C11_DecodedByShape ==
  DecodedActivity =>
    /\ TradeShape(dec.input) =>
         DecResult.ok /\ DecResult.val.variant = "TradeActivity"
    /\ NonTradeShape(dec.input) =>
         DecResult.ok /\ DecResult.val.variant = "NonTradeActivity"
    /\ (~HasAll(dec.input, TradeActivity_fields)
        /\ ~HasAll(dec.input, NonTradeDocumentedFields)) => ~DecResult.ok

\* the part of C11 that the code keeps: payloads that carry the qty key
C11_DecodedByShapeWithQty ==
  (DecodedActivity /\ HasKey(dec.input, "qty")) => C11_DecodedByShape

\* C26: a payload that carries the required NonTradeActivity fields
\* (activity_type, id, date, net_amount) and omits the optional symbol, qty and
\* per_share_amount decodes as a NonTradeActivity with each of them None.
C26_OmittedOptionalsNone ==
  (/\ DecodedActivity
   /\ HasAll(dec.input, NonTradeDocumentedFields)
   /\ ~HasKey(dec.input, "symbol")
   /\ ~HasKey(dec.input, "qty")
   /\ ~HasKey(dec.input, "per_share_amount")) =>
    /\ DecResult.ok
    /\ DecResult.val.variant = "NonTradeActivity"
    /\ DecResult.val.symbol = None
    /\ DecResult.val.qty = None
    /\ DecResult.val.per_share_amount = None

\* a non-trade payload that omits symbol and per_share_amount and carries a
\* null qty is decoded with all three None
NonTradeDecodedWithNullQty ==
  /\ DecodedActivity
  /\ HasAll(dec.input, NonTradeDocumentedFields)
  /\ ~HasKey(dec.input, "symbol") /\ ~HasKey(dec.input, "per_share_amount")
  /\ HasKey(dec.input, "qty") /\ Get(dec.input, "qty") = JNull
  /\ DecResult.ok
  /\ DecResult.val.variant = "NonTradeActivity"
  /\ DecResult.val.symbol = None /\ DecResult.val.qty = None
  /\ DecResult.val.per_share_amount = None

ActivityTypeDecoded == dec.target = "ActivityType" /\ dec.pc = "decoded"

\* C29: distinct ActivityType variants have distinct wire codes: decoding the
\* code of a variant gives that variant back, and no other variant has the
\* same code, so the path /v2/account/activities/{code} names one variant.
C29_WireCodesDistinct ==
  ActivityTypeDecoded =>
    /\ DecResult = Ok(dec.input)
    /\ \A t \in ActivityTypeInputs :
         GetAccountActivitiesByType_endpoint(GetAccountActivitiesByType_new(t))
           = <<"/v2/account/activities/", Unwrap(dec.encoded)>> => t = dec.input

\* the part of C29 that the code keeps: every variant but the two tax
\* dividend adjustments comes back from its code
WireCodeRoundTripOthers ==
  (ActivityTypeDecoded /\ dec.input \notin {"DividendTefraWithheld", "DividendTaxExempt"}) =>
    C29_WireCodesDistinct

OrderDecoded == dec.pc = "decoded" /\ dec.target = "Order"
IsTrailingStopPayload(p) == HasKey(p, "type") /\ Get(p, "type") = JString("trailing_stop")

\* C30: for every decoded Order whose payload has type trailing_stop, the
\* decoded order_type is a TrailingStop whose trail_price and trail_percent
\* are the payload's, that is, they agree with the Order's own trail_price
\* and trail_percent fields.
C30_TrailingStopCarriesOffsets ==
  (OrderDecoded /\ DecResult.ok /\ IsTrailingStopPayload(dec.input)) =>
    /\ DecResult.val.order_type.variant = "TrailingStop"
    /\ DecResult.val.order_type.trail_price = De_OptionDecimal(dec.input, "trail_price").val
    /\ DecResult.val.order_type.trail_percent = De_OptionDecimal(dec.input, "trail_percent").val
    /\ DecResult.val.order_type.trail_price = DecResult.val.trail_price
    /\ DecResult.val.order_type.trail_percent = DecResult.val.trail_percent

\* the part of C30 that the code keeps: the variant is TrailingStop and the
\* Order's own fields hold the payload's offsets
TrailingStopOwnFields ==
  (OrderDecoded /\ DecResult.ok /\ IsTrailingStopPayload(dec.input)) =>
    /\ DecResult.val.order_type.variant = "TrailingStop"
    /\ DecResult.val.trail_price = De_OptionDecimal(dec.input, "trail_price").val
    /\ DecResult.val.trail_percent = De_OptionDecimal(dec.input, "trail_percent").val

\* a trailing stop payload with a trail price was decoded
TrailingStopDecoded ==
  /\ OrderDecoded /\ DecResult.ok /\ IsTrailingStopPayload(dec.input)
  /\ DecResult.val.trail_price = Some(Decimal_new(105, 2))
  /\ DecResult.val.order_type = TrailingStop(None, None)

Decoded(target) == dec.pc \in {"decoded", "encoded"} /\ dec.target = target
\* the STRICT-STRING quantity fields of a response type
StrictFields(target) == IF target = "Order" THEN {"qty", "filled_qty"} ELSE {"qty"}
Fifteen == JString(<<"1", "5">>)

\* C12: a STRICT-STRING quantity field (Order qty and filled_qty, Position
\* qty) given a JSON number is a decode error; given the string "15" it
\* decodes to the integer 15.
C12_StrictStringOnly ==
  \A target \in {"Order", "Position"} :
    Decoded(target) =>
      /\ (\E k \in StrictFields(target) : Get(dec.input, k).t = "number") => ~DecResult.ok
      /\ (\A k \in StrictFields(target) : Get(dec.input, k) = Fifteen) =>
           DecResult.ok /\ \A k \in StrictFields(target) : DecResult.val[k] = 15

\* an Order whose qty token is the number 15 has been refused
C12_Witness ==
  /\ Decoded("Order")
  /\ Get(dec.input, "qty") = JNumber(15)
  /\ ~DecResult.ok

\* C13: a LENIENT quantity field (NonTradeActivity qty) given the JSON number
\* 15 or the string "15" decodes to 15.
C13_LenientBothForms ==
  (/\ DecodedActivity
   /\ HasKey(dec.input, "qty")
   /\ Get(dec.input, "qty") \in {Fifteen, JNumber(15)}
   /\ DecResult.ok
   /\ DecResult.val.variant = "NonTradeActivity") => DecResult.val.qty = Some(15)

\* the string form alone, which the code does decode to 15
C13_LenientStringForm ==
  (/\ DecodedActivity
   /\ HasKey(dec.input, "qty")
   /\ Get(dec.input, "qty") = Fifteen
   /\ DecResult.ok
   /\ DecResult.val.variant = "NonTradeActivity") => DecResult.val.qty = Some(15)

QtyToken == Get(dec.input, "qty")
FilledQtyToken == Get(dec.input, "filled_qty")
IsDecimalToken(token) == token.t = "string" /\ Decimal_from_str(token.v).ok
IsWholeToken(token) == token.t = "string" /\ IsDigits(token.v)
IsFractionToken(token) == IsDecimalToken(token) /\ HasChar(token.v, Dot)
\* the integer n and the decimal d are the same number
SameValue(n, d) == n * Pow10(d.scale) = d.num

\* C14: Order qty and filled_qty are read from any decimal-string token,
\* fractional or whole, to exactly that decimal value, and encoding the
\* decoded value gives a decimal string of equal value.
C14_AnyDecimalExact ==
  (Decoded("Order") /\ IsDecimalToken(QtyToken) /\ IsDecimalToken(FilledQtyToken)) =>
    /\ DecResult.ok
    /\ SameValue(DecResult.val.qty, Decimal_from_str(QtyToken.v).val)
    /\ SameValue(DecResult.val.filled_qty, Decimal_from_str(FilledQtyToken.v).val)

\* C14, amended: a whole-number token decodes to exactly that integer and the
\* encoding of the decoded value is a digit string of equal value; a token
\* with a fraction is a decode error.
C14_WholeNumberExact ==
  Decoded("Order") =>
    /\ (IsWholeToken(QtyToken) /\ IsWholeToken(FilledQtyToken)) =>
         /\ DecResult.ok
         /\ DecResult.val.qty = DigitsValue(QtyToken.v)
         /\ DecResult.val.filled_qty = DigitsValue(FilledQtyToken.v)
    /\ (IsFractionToken(QtyToken) \/ IsFractionToken(FilledQtyToken)) => ~DecResult.ok
    /\ dec.pc = "encoded" =>
         LET encoded == Unwrap(dec.encoded) IN
         /\ IsWholeToken(Get(encoded, "qty"))
         /\ IsWholeToken(Get(encoded, "filled_qty"))
         /\ DigitsValue(Get(encoded, "qty").v) = DecResult.val.qty
         /\ DigitsValue(Get(encoded, "filled_qty").v) = DecResult.val.filled_qty

\* the token "100" has been decoded to 100 and encoded back as "100"
C14_Witness ==
  /\ Decoded("Order") /\ dec.pc = "encoded"
  /\ QtyToken = JString(<<"1", "0", "0">>)
  /\ DecResult.val.qty = 100
  /\ Get(Unwrap(dec.encoded), "qty") = JString(<<"1", "0", "0">>)

(* ==================== Response classification properties =============== *)
HttpResult == Unwrap(http.result)

\* C16: a response whose status is not 2xx is returned as a status error that
\* carries the status code, and the decoder never runs on it; a success with
\* status 204 or an empty body is returned as the empty-response value, and
\* the decoder never runs on it.
C16_ClassifiedBeforeDecode ==
  http.pc = "done" =>
    /\ ~IsSuccess(http.status) =>
         /\ ~HttpResult.ok
         /\ HttpResult.val.kind = "Status" /\ HttpResult.val.code = http.status
         /\ http.decodes = 0
    /\ (IsSuccess(http.status) /\ (http.status = NoContent \/ http.body = EmptyBody)) =>
         /\ HttpResult = Ok(EmptyResponse)
         /\ http.decodes = 0

\* a 404 on get-order-by-id came back as a status error with code 404
C16_Witness ==
  /\ http.pc = "done" /\ http.request = "GetOrder"
  /\ http.status = 404
  /\ HttpResult = Err(StatusError(404, http.body))
  /\ http.decodes = 0

(* ======================= Query encoding properties ==================== *)
QueryEncoded(kinds) == qry.pc = "encoded" /\ qry.kind \in kinds
QueryOut == Unwrap(qry.out)

\* the values a query carries under a key, in order
RECURSIVE ValuesOf(_, _)
ValuesOf(query, key) ==
  IF query = <<>> THEN <<>>
  ELSE (IF Head(query)[1] = key THEN <<Head(query)[2]>> ELSE <<>>)
       \o ValuesOf(Tail(query), key)

\* the activity types a log of builder calls has added, in call order
RECURSIVE AddedTypes(_)
AddedTypes(calls) ==
  IF calls = <<>> THEN <<>>
  ELSE (CASE Head(calls)[1] = "add_activity" -> <<Head(calls)[2]>>
          [] Head(calls)[1] = "add_activities" -> Head(calls)[2]
          [] OTHER -> <<>>)
       \o AddedTypes(Tail(calls))

\* the text is the wire codes of the types, in order, with a comma between
\* neighbours
IsCommaJoined(text, types) ==
  /\ types # <<>>
  /\ Len(text) = 2 * Len(types) - 1
  /\ \A i \in 1..Len(types) : text[2 * i - 1] = ActivityType_rename[ActivityType_index(types[i])]
  /\ \A i \in 1..(Len(types) - 1) : text[2 * i] = ","

\* C22: the activity types added to a GetAccountActivities by any sequence of
\* add_activity and add_activities calls are encoded as one activity_types
\* query parameter, their wire codes joined by commas in call order with
\* duplicates kept; the parameter is absent when no type was added.
C22_ActivityTypesCommaJoined ==
  QueryEncoded({"GetAccountActivities"}) =>
    /\ QueryOut.ok
    /\ LET added == AddedTypes(qry.calls)
           given == ValuesOf(QueryOut.val, "activity_types")
       IN IF added = <<>> THEN given = <<>>
          ELSE Len(given) = 1 /\ IsCommaJoined(given[1], added)

\* both calls were used, a type was added twice, and the request was encoded
C22_Witness ==
  /\ QueryEncoded({"GetAccountActivities"})
  /\ \E i, j \in 1..Len(qry.calls) :
       /\ i < j
       /\ qry.calls[i][1] = "add_activities" /\ Len(qry.calls[i][2]) = 2
       /\ qry.calls[j][1] = "add_activity"
  /\ \E i, j \in 1..Len(AddedTypes(qry.calls)) :
       i # j /\ AddedTypes(qry.calls)[i] = AddedTypes(qry.calls)[j]
  /\ Len(ValuesOf(QueryOut.val, "activity_types")) = 1


\* C23: the symbols filter of GetOrders is encoded as a single comma-joined
\* symbols query parameter, and encoding a GetOrders with one or more symbols
\* succeeds.
C23_SymbolsCommaJoined ==
  (/\ QueryEncoded({"GetOrders"})
   /\ IsSome(qry.req.symbols)
   /\ Unwrap(qry.req.symbols) # <<>>) =>
    /\ QueryOut.ok
    /\ LET symbols == Unwrap(qry.req.symbols)
           given == ValuesOf(QueryOut.val, "symbols")
       IN /\ Len(given) = 1
          /\ Len(given[1]) = 2 * Len(symbols) - 1
          /\ \A i \in 1..Len(symbols) : given[1][2 * i - 1] = symbols[i]
          /\ \A i \in 1..(Len(symbols) - 1) : given[1][2 * i] = ","

\* a GetOrders without symbols is encoded, status absent and limit present
QueryEncodesWithoutSymbols ==
  /\ QueryEncoded({"GetOrders"})
  /\ qry.req.symbols = None
  /\ IsSome(qry.req.limit)
  /\ QueryOut = Ok(<< <<"limit", "5">> >>)


\* the position of the last call of the given names in a log, 0 if none
LastCall(calls, names) ==
  IF \E i \in 1..Len(calls) : calls[i][1] \in names
  THEN CHOOSE i \in 1..Len(calls) :
         /\ calls[i][1] \in names
         /\ \A j \in (i + 1)..Len(calls) : calls[j][1] \notin names
  ELSE 0

\* C24: before_date and after_date compose: once both have been called, in
\* either order, with no on_date after either of them, the query carries both
\* until and after, each with the value last given to it, so each call leaves
\* the other bound as it was.
C24_RangeBoundsCompose ==
  QueryEncoded(DatedKinds) =>
    LET single == LastCall(qry.calls, {"on_date"})
        upper == LastCall(qry.calls, {"before_date"})
        lower == LastCall(qry.calls, {"after_date"})
    IN (upper > single /\ lower > single) =>
         /\ QueryOut.ok
         /\ ValuesOf(QueryOut.val, "until") = <<qry.calls[upper][2]>>
         /\ ValuesOf(QueryOut.val, "after") = <<qry.calls[lower][2]>>

\* an upper bound given twice around a lower bound, with different dates
C24_Witness ==
  /\ QueryEncoded(DatedKinds)
  /\ Len(qry.calls) = 3
  /\ qry.calls[1][1] = "before_date"
  /\ qry.calls[2][1] = "after_date"
  /\ qry.calls[3][1] = "before_date"
  /\ qry.calls[1][2] # qry.calls[3][2]
  /\ qry.calls[2][2] # qry.calls[3][2]
  /\ ValuesOf(QueryOut.val, "after") = <<qry.calls[2][2]>>

\* C28: after any sequence of on_date, before_date and after_date calls the
\* query never carries date together with until or after: the most recent
\* call decides, on_date discarding a range and before_date or after_date
\* discarding a single date.
C28_DateOrRange ==
  QueryEncoded(DatedKinds) =>
    LET single == LastCall(qry.calls, {"on_date"})
        range == LastCall(qry.calls, {"before_date", "after_date"})
        date == ValuesOf(QueryOut.val, "date")
        until == ValuesOf(QueryOut.val, "until")
        after == ValuesOf(QueryOut.val, "after")
    IN /\ QueryOut.ok
       /\ ~(date # <<>> /\ (until # <<>> \/ after # <<>>))
       /\ single > range => date = <<qry.calls[single][2]>> /\ until = <<>> /\ after = <<>>
       /\ range > single => date = <<>> /\ (until # <<>> \/ after # <<>>)
       /\ (single = 0 /\ range = 0) => date = <<>> /\ until = <<>> /\ after = <<>>

\* a range was given, then a single date, then a bound again
C28_Witness ==
  /\ QueryEncoded(DatedKinds)
  /\ Len(qry.calls) = 3
  /\ qry.calls[1][1] = "after_date"
  /\ qry.calls[2][1] = "on_date"
  /\ qry.calls[3][1] = "before_date"
  /\ ValuesOf(QueryOut.val, "until") = <<qry.calls[3][2]>>
  /\ ValuesOf(QueryOut.val, "after") = <<>>


(* ========================= Page size properties ======================= *)
\* the page_size values of the i-th request of the sequence
SentPageSize(i) == ValuesOf(sent[i], "page_size")

\* C27: in a sequence started from a request with page_size p every request
\* carries page_size p; without a caller value every cursor carries the
\* default 100; so the page size does not change between the pages of a
\* sequence.
C27_PageSizeKept ==
  /\ IsSome(request.page_size) =>
       \A i \in 1..Len(sent) : SentPageSize(i) = <<usize_to_string(Unwrap(request.page_size))>>
  /\ (request.page_size = None /\ IsSome(cursor)) => Unwrap(cursor).page_size = DefaultPageSize
  /\ request.page_size = None =>
       \A i \in 2..Len(sent) : SentPageSize(i) = <<usize_to_string(DefaultPageSize)>>

\* the part of C27 that the code keeps: without a caller value every cursor
\* and every request after the first carries 100
PageSizeDefaultKept ==
  request.page_size = None =>
    /\ IsSome(cursor) => Unwrap(cursor).page_size = DefaultPageSize
    /\ \A i \in 2..Len(sent) : SentPageSize(i) = <<usize_to_string(DefaultPageSize)>>


====
